---- MODULE Spec2Model ----
(***************************************************************************)
(* Product service of super-market-system: the two ProductRepository       *)
(* strategies (PostgresRepository over gorm, DynamoDBRepository over the   *)
(* DynamoDB API), the Product/Department/Category services built on them   *)
(* and the data the schema script inserts.                                 *)
(*                                                                         *)
(* Conventions.  A Go string is a sequence of one-character strings, so    *)
(* that strings.ToLower, strings.Contains and SQL LIKE are computed.  A Go *)
(* pointer to T is <<>> for nil and <<v>> for a pointer to v.  An id is a  *)
(* natural number, 0 standing for the empty string.  An error is the       *)
(* sequence of the messages that fmt.Errorf("...: %w") chained, outermost  *)
(* first; <<>> is the nil error.  Decimal amounts (price, rating) are      *)
(* integers counting units of 10^-(FracDigits+1), one digit finer than     *)
(* what fmt.Sprintf("%f") keeps.                                           *)
(***************************************************************************)
EXTENDS Integers, Sequences, FiniteSets, TLC

VARIABLES
    backend,      \* the ProductRepository the services were built with
    products,     \* products table / items, in storage (scan) order
    departments,  \* departments table, in storage order
    categories,   \* categories table, in storage order
    clock,        \* time.Now() / CURRENT_TIMESTAMP of the last write
    nextId,       \* number of ids uuid.New / gen_random_uuid handed out
    resp,         \* what the last completed operation returned
    reqs          \* in-flight ProductService.UpdateStock requests

vars == <<backend, products, departments, categories, clock, nextId, resp, reqs>>

-----------------------------------------------------------------------------
(* Bounds of the model *)

\* products present before the first request
MaxInit == 3
\* writes (each takes a new timestamp) in one behaviour
MaxClock == 2
\* ids that uuid.New hands out on top of the initial rows
MaxNew == 1
\* concurrent stock requests
MaxWorkers == 2
\* rows of the schema script's INSERT INTO categories that are kept
SeedCategories == 2
\* rows of the schema script's INSERT INTO departments that are kept
SeedDepartments == 1

(* Program constants *)

\* digits fmt.Sprintf("%f", x) keeps after the decimal point
FracDigits == 6
\* ProductService.ListProducts: default and largest page size
DefaultLimit == 20
MaxLimit == 100
\* level the schema script gives its categories
SeedLevel == 1
\* min_stock the schema script gives its products
SeedMinStock == 5

-----------------------------------------------------------------------------
(* Helpers *)

Min(a, b) == IF a < b THEN a ELSE b
Max(a, b) == IF a > b THEN a ELSE b

RECURSIVE Pow10(_)
Pow10(n) == IF n = 0 THEN 1 ELSE 10 * Pow10(n - 1)

\* one unit of the 6th decimal digit, and one cent, in model units
Micro == Pow10(1)
Cent == Pow10(FracDigits + 1 - 2)
Whole == Pow10(FracDigits + 1)

Range(s) == {s[i] : i \in 1..Len(s)}

RECURSIVE SelectSeqBy(_, _)
\* s filtered by the predicate-as-set of indices keep
SelectSeqBy(s, keep) ==
    IF s = <<>> THEN <<>>
    ELSE LET n == Len(s)
             front == SelectSeqBy(SubSeq(s, 1, n - 1), keep)
         IN IF n \in keep THEN Append(front, s[n]) ELSE front

\* s[from:] of Go, for 0 <= from <= len(s)
SliceFrom(s, from) == SubSeq(s, from + 1, Len(s))
\* s[:to] of Go, for 0 <= to <= len(s)
\* the slice bound taken as the index of the last element kept
SliceTo_Inclusive(s, to) == SubSeq(s, 1, IF to + 1 < Len(s) THEN to + 1 ELSE Len(s))
SliceTo(s, to) == SubSeq(s, 1, to)

InsertAt(s, pos, x) == SubSeq(s, 1, pos - 1) \o <<x>> \o SubSeq(s, pos, Len(s))

Ids(store) == {store[i].id : i \in 1..Len(store)}
IndexOf(store, id) == CHOOSE i \in 1..Len(store) : store[i].id = id

-----------------------------------------------------------------------------
(* Strings *)

UpperChars == <<"A", "B", "C", "D", "E", "F", "G", "H", "I", "J", "K", "L", "M",
                "N", "O", "P", "Q", "R", "S", "T", "U", "V", "W", "X", "Y", "Z">>
LowerChars == <<"a", "b", "c", "d", "e", "f", "g", "h", "i", "j", "k", "l", "m",
                "n", "o", "p", "q", "r", "s", "t", "u", "v", "w", "x", "y", "z">>

LowerChar(c) ==
    IF \E i \in 1..Len(UpperChars) : UpperChars[i] = c
    THEN LowerChars[CHOOSE i \in 1..Len(UpperChars) : UpperChars[i] = c]
    ELSE c

\* strings.ToLower / SQL LOWER on ASCII text
ToLower(s) == [i \in 1..Len(s) |-> LowerChar(s[i])]

\* strings.Contains
Contains(s, sub) ==
    \E i \in 0..(Len(s) - Len(sub)) : SubSeq(s, i + 1, i + Len(sub)) = sub

RECURSIVE Like(_, _)
\* SQL: s LIKE pat, with % (any run), _ (any one character) and \ (escape)
Like(s, pat) ==
    IF pat = <<>> THEN s = <<>>
    ELSE IF Head(pat) = "%"
         THEN \E k \in 0..Len(s) : Like(SliceFrom(s, k), Tail(pat))
    ELSE IF Head(pat) = "_"
         THEN s # <<>> /\ Like(Tail(s), Tail(pat))
    ELSE IF Head(pat) = "\\" /\ Len(pat) > 1
         THEN s # <<>> /\ Head(s) = pat[2] /\ Like(Tail(s), SliceFrom(pat, 2))
    ELSE s # <<>> /\ Head(s) = Head(pat) /\ Like(Tail(s), Tail(pat))

\* fmt.Sprintf("%f", x) read back as a DynamoDB number: x rounded to
\* FracDigits decimals (inputs here never lie on a rounding tie)
Sprintf_f(x) == ((x + (Micro \div 2)) \div Micro) * Micro

Str_Milk == <<"M", "i", "l", "k">>
Str_milk == <<"m", "i", "l", "k">>
Str_Tea == <<"T", "e", "a">>
Str_Alba == <<"A", "l", "b", "a">>
Str_Sample == <<"S", "a", "m", "p", "l", "e">>
Str_each == <<"e", "a", "c", "h">>
Str_g == <<"g">>
Str_wild == <<"_">>
\* 'PROD-' || n and 'product-' || n of the schema script, shortened
Sku(n) == <<"P", "-", ToString(n)>>
Slug(n) == <<"p", "-", ToString(n)>>

-----------------------------------------------------------------------------
(* Errors *)

NoError == <<>>
Wrap(msg, err) == <<msg>> \o err

\* what the handlers look for with strings.Contains(err.Error(), "not found")
NotFoundMessages == {"product not found", "department not found",
                     "category not found", "parent category not found",
                     "record not found"}
MentionsNotFound(err) == \E i \in 1..Len(err) : err[i] \in NotFoundMessages
MentionsInsufficientStock(err) == \E i \in 1..Len(err) : err[i] = "insufficient stock"
MentionsNoFields(err) == \E i \in 1..Len(err) : err[i] = "no fields to update"
-----------------------------------------------------------------------------
(* models.Product, models.ProductFilter, models.UpdateProductRequest *)

\* the zero value of models.Product
ZeroProduct ==
    [id |-> 0, sku |-> <<>>, slug |-> <<>>, name |-> <<>>, description |-> <<>>,
     price |-> 0, original_price |-> <<>>, category_id |-> 0, department_id |-> 0,
     brand |-> <<>>, unit |-> <<>>, stock |-> 0, min_stock |-> 0, weight |-> 0,
     weight_unit |-> <<>>, is_on_sale |-> FALSE, discount |-> <<>>, rating |-> 0,
     reviews |-> 0, is_active |-> FALSE, tags |-> {}, updated_at |-> 0]

\* the zero value of models.ProductFilter
ZeroFilter ==
    [category_id |-> 0, department_id |-> 0, brand |-> <<>>, min_price |-> <<>>,
     max_price |-> <<>>, in_stock |-> <<>>, is_on_sale |-> <<>>, min_rating |-> <<>>,
     search |-> <<>>, tags |-> {}, limit |-> 0, offset |-> 0]

\* the fields of models.UpdateProductRequest that are pointers
PatchFields == {"name", "description", "slug", "price", "original_price",
                "category_id", "department_id", "brand", "unit", "stock",
                "min_stock", "weight", "weight_unit", "is_on_sale", "discount",
                "rating", "reviews", "is_active"}

\* the zero value of models.UpdateProductRequest: every pointer nil
ZeroPatch == [f \in PatchFields |-> <<>>]

\* original_price and discount stay pointers in models.Product
PointerFields == {"original_price", "discount"}

\* the value a patch carries for field f, as models.Product stores it
PatchValue(patch, f) == IF f \in PointerFields THEN patch[f] ELSE patch[f][1]

\* the record replaced as a whole: the fields outside fs are reset
ApplyPatch_Replace(rec, patch, fs) ==
    [f \in DOMAIN rec |-> IF f \in fs THEN PatchValue(patch, f)
                          ELSE IF f = "id" THEN rec[f] ELSE ZeroProduct[f]]

\* record rec with the fields of the set fs overwritten from the patch
ApplyPatch(rec, patch, fs) ==
    [f \in DOMAIN rec |-> IF f \in fs THEN PatchValue(patch, f) ELSE rec[f]]

-----------------------------------------------------------------------------
(* PostgresRepository: products *)

\* the fields the search condition looks at
SearchFields == {"name", "description", "sku", "brand", "slug"}

\* the WHERE clause without its is_active condition
PostgresRepository_ListProducts_Where_AnyStatus(p, filter) ==
    /\ (filter.category_id # 0 => p.category_id = filter.category_id)
    /\ (filter.department_id # 0 => p.department_id = filter.department_id)
    /\ (filter.brand # <<>> => p.brand = filter.brand)
    /\ (filter.min_price # <<>> => p.price >= filter.min_price[1])
    /\ (filter.max_price # <<>> => p.price <= filter.max_price[1])
    /\ ((filter.in_stock # <<>> /\ filter.in_stock[1]) => p.stock > 0)
    /\ ((filter.is_on_sale # <<>> /\ filter.is_on_sale[1]) => p.is_on_sale = TRUE)
    /\ (filter.min_rating # <<>> => p.rating >= filter.min_rating[1])
    /\ (filter.search # <<>> =>
            LET searchPattern == <<"%">> \o ToLower(filter.search) \o <<"%">>
            IN \E f \in SearchFields : Like(ToLower(p[f]), searchPattern))

\* the WHERE clause with the search condition not parenthesised: its OR
\* terms after the first stand beside the AND of everything else
PostgresRepository_ListProducts_Where_OrSearch(p, filter) ==
    LET searchPattern == <<"%">> \o ToLower(filter.search) \o <<"%">>
    IN \/ /\ p.is_active = TRUE
          /\ (filter.category_id # 0 => p.category_id = filter.category_id)
          /\ (filter.department_id # 0 => p.department_id = filter.department_id)
          /\ (filter.brand # <<>> => p.brand = filter.brand)
          /\ (filter.min_price # <<>> => p.price >= filter.min_price[1])
          /\ (filter.max_price # <<>> => p.price <= filter.max_price[1])
          /\ ((filter.in_stock # <<>> /\ filter.in_stock[1]) => p.stock > 0)
          /\ ((filter.is_on_sale # <<>> /\ filter.is_on_sale[1]) => p.is_on_sale = TRUE)
          /\ (filter.min_rating # <<>> => p.rating >= filter.min_rating[1])
          /\ (filter.search # <<>> => Like(ToLower(p.name), searchPattern))
       \/ /\ filter.search # <<>>
          /\ \E f \in SearchFields \ {"name"} : Like(ToLower(p[f]), searchPattern)

\* the WHERE clause ListProducts builds
PostgresRepository_ListProducts_Where(p, filter) ==
    /\ p.is_active = TRUE
    /\ (filter.category_id # 0 => p.category_id = filter.category_id)
    /\ (filter.department_id # 0 => p.department_id = filter.department_id)
    /\ (filter.brand # <<>> => p.brand = filter.brand)
    /\ (filter.min_price # <<>> => p.price >= filter.min_price[1])
    /\ (filter.max_price # <<>> => p.price <= filter.max_price[1])
    /\ ((filter.in_stock # <<>> /\ filter.in_stock[1]) => p.stock > 0)
    /\ ((filter.is_on_sale # <<>> /\ filter.is_on_sale[1]) => p.is_on_sale = TRUE)
    /\ (filter.min_rating # <<>> => p.rating >= filter.min_rating[1])
    /\ (filter.search # <<>> =>
            LET searchPattern == <<"%">> \o ToLower(filter.search) \o <<"%">>
            IN \E f \in SearchFields : Like(ToLower(p[f]), searchPattern))

\* the lookup by id alone
PostgresRepository_GetProduct_AnyStatus(store, id) ==
    IF \E i \in 1..Len(store) : store[i].id = id
    THEN [err |-> NoError, product |-> store[IndexOf(store, id)]]
    ELSE [err |-> <<"product not found">>, product |-> ZeroProduct]

PostgresRepository_GetProduct(store, id) ==
    IF \E i \in 1..Len(store) : store[i].id = id /\ store[i].is_active = TRUE
    THEN [err |-> NoError, product |-> store[IndexOf(store, id)]]
    ELSE [err |-> <<"product not found">>, product |-> ZeroProduct]

PostgresRepository_ListProducts(store, filter) ==
    LET matching == SelectSeqBy(store,
            {i \in 1..Len(store) : PostgresRepository_ListProducts_Where(store[i], filter)})
        totalCount == Len(matching)
        \* OFFSET beyond the last row yields no rows
        skipped == IF filter.offset > 0
                   THEN SliceFrom(matching, Min(filter.offset, Len(matching)))
                   ELSE matching
        page == IF filter.limit > 0
                THEN SliceTo(skipped, Min(filter.limit, Len(skipped)))
                ELSE skipped
    IN [err |-> NoError, products |-> page, total_count |-> totalCount,
        limit |-> filter.limit, offset |-> filter.offset]

\* the text of an error of the database driver that is not
\* gorm.ErrRecordNotFound, nor the SDK's answer for a missing item
StorageFailure == "connection refused"

\* ListProducts when the storage calls named in failing fail ("count" for
\* query.Count, "find" for query.Find), each call finding the *gorm.DB of the
\* chain as the call before it left it
PostgresRepository_ListProducts_Calls_FreshSession(store, filter, failing) ==
    IF "find" \in failing
    THEN [err |-> <<"failed to list products", StorageFailure>>, products |-> <<>>,
          total_count |-> 0, limit |-> 0, offset |-> 0]
    ELSE IF "count" \in failing
    THEN [PostgresRepository_ListProducts(store, filter) EXCEPT !.total_count = 0]
    ELSE PostgresRepository_ListProducts(store, filter)

\* query.Count(&totalCount) drops the *gorm.DB it returns, and its error with
\* it; but query was returned by Model(...).Where(...), so Count and Find
\* run on that one *gorm.DB and an error of Count stays in its Error field:
\* Find on a *gorm.DB whose Error is set runs no query and returns the error
PostgresRepository_ListProducts_Calls(store, filter, failing) ==
    LET queryError == IF "count" \in failing THEN <<StorageFailure>> ELSE NoError
        resultError == IF queryError # NoError THEN queryError
                       ELSE IF "find" \in failing THEN <<StorageFailure>>
                       ELSE NoError
    IN IF resultError # NoError
       THEN [err |-> <<"failed to list products">> \o resultError, products |-> <<>>,
             total_count |-> 0, limit |-> 0, offset |-> 0]
       ELSE PostgresRepository_ListProducts(store, filter)

\* the query with a strict comparison
PostgresRepository_GetLowStockProducts_Below(store) ==
    [err |-> NoError,
     products |-> SelectSeqBy(store,
        {i \in 1..Len(store) : store[i].stock < store[i].min_stock
                               /\ store[i].is_active = TRUE})]

PostgresRepository_GetLowStockProducts(store) ==
    [err |-> NoError,
     products |-> SelectSeqBy(store,
        {i \in 1..Len(store) : store[i].stock <= store[i].min_stock
                               /\ store[i].is_active = TRUE})]

\* the columns UpdateProduct copies into updateFields (min_stock is not one)
PostgresRepository_UpdateProduct_Fields ==
    {"name", "description", "price", "category_id", "slug", "original_price",
     "department_id", "brand", "unit", "stock", "weight", "weight_unit",
     "is_on_sale", "discount", "rating", "reviews", "is_active"}

\* the products table's constraints: sku UNIQUE, slug UNIQUE, category_id
\* REFERENCES categories(id), department_id UUID NOT NULL
ProductsTableAccepts(rows, cats, row) ==
    /\ \A i \in 1..Len(rows) :
          rows[i].id # row.id => (rows[i].sku # row.sku /\ rows[i].slug # row.slug)
    /\ row.category_id \in Ids(cats)
    /\ row.department_id # 0

\* the insert that keeps the is_active value of the entity it was given
PostgresRepository_CreateProduct_KeepActive(store, cats, product, newId, now) ==
    LET row == [product EXCEPT !.id = newId, !.updated_at = now]
    IN IF ProductsTableAccepts(store, cats, row)
       THEN [err |-> NoError, store |-> Append(store, row), product |-> row]
       ELSE [err |-> <<"failed to create product", "constraint violation">>,
             store |-> store, product |-> row]

PostgresRepository_CreateProduct(store, cats, product, newId, now) ==
    LET row == [product EXCEPT !.id = newId, !.is_active = TRUE, !.updated_at = now]
    IN IF ProductsTableAccepts(store, cats, row)
       THEN [err |-> NoError, store |-> Append(store, row), product |-> row]
       ELSE [err |-> <<"failed to create product", "constraint violation">>,
             store |-> store, product |-> row]

PostgresRepository_UpdateProduct(store, cats, id, updates, now) ==
    IF id \notin Ids(store)
    THEN [err |-> <<"product not found">>, store |-> store, product |-> ZeroProduct]
    ELSE
    LET i == IndexOf(store, id)
        updateFields == {f \in PostgresRepository_UpdateProduct_Fields : updates[f] # <<>>}
        row == [ApplyPatch(store[i], updates, updateFields) EXCEPT !.updated_at = now]
    IN IF updateFields = {}
       THEN [err |-> <<"no fields to update">>, store |-> store, product |-> ZeroProduct]
       ELSE IF ~ProductsTableAccepts(store, cats, row)
       THEN [err |-> <<"failed to update product", "constraint violation">>,
             store |-> store, product |-> ZeroProduct]
       ELSE [err |-> NoError, store |-> [store EXCEPT ![i] = row], product |-> row]

PostgresRepository_DeleteProduct(store, id) ==
    IF id \notin Ids(store)
    THEN [err |-> <<"product not found">>, store |-> store]
    ELSE [err |-> NoError,
          store |-> SelectSeqBy(store, {i \in 1..Len(store) : store[i].id # id})]

\* the update written without gorm.Expr: the column is set to the quantity
PostgresRepository_UpdateStock_Assign(store, id, quantity, now) ==
    IF id \notin Ids(store)
    THEN [err |-> <<"product not found">>, store |-> store]
    ELSE LET i == IndexOf(store, id)
         IN [err |-> NoError,
             store |-> [store EXCEPT ![i].stock = quantity, ![i].updated_at = now]]

PostgresRepository_UpdateStock(store, id, quantity, now) ==
    IF id \notin Ids(store)
    THEN [err |-> <<"product not found">>, store |-> store]
    ELSE LET i == IndexOf(store, id)
         IN [err |-> NoError,
             store |-> [store EXCEPT ![i].stock = @ + quantity, ![i].updated_at = now]]

-----------------------------------------------------------------------------
(* DynamoDBRepository: products *)

\* the FilterExpression ListProducts builds; numbers go through "%f"
DynamoDBRepository_ListProducts_FilterExpression(p, filter) ==
    /\ (filter.category_id # 0 => p.category_id = filter.category_id)
    /\ (filter.department_id # 0 => p.department_id = filter.department_id)
    /\ (filter.brand # <<>> => p.brand = filter.brand)
    /\ (filter.min_price # <<>> => p.price >= Sprintf_f(filter.min_price[1]))
    /\ (filter.max_price # <<>> => p.price <= Sprintf_f(filter.max_price[1]))
    /\ ((filter.in_stock # <<>> /\ filter.in_stock[1]) => p.stock > 0)
    /\ ((filter.is_on_sale # <<>> /\ filter.is_on_sale[1]) => p.is_on_sale = TRUE)
    /\ (filter.min_rating # <<>> => p.rating >= Sprintf_f(filter.min_rating[1]))
    /\ p.is_active = TRUE

\* the in-memory search filter
DynamoDBRepository_ListProducts_Search(p, filter) ==
    LET searchLower == ToLower(filter.search)
    IN \E f \in SearchFields : Contains(ToLower(p[f]), searchLower)

\* Scan: ScanInput.Limit bounds the items evaluated, before the
\* FilterExpression is applied to them
Scan(store, limit) ==
    IF limit > 0 THEN SliceTo(store, Min(limit, Len(store))) ELSE store

DynamoDBRepository_GetProduct(store, id) ==
    IF \E i \in 1..Len(store) : store[i].id = id
    THEN [err |-> NoError, product |-> store[IndexOf(store, id)]]
    ELSE [err |-> <<"product not found">>, product |-> ZeroProduct]

DynamoDBRepository_ListProducts(store, filter) ==
    LET evaluated == Scan(store, filter.limit)
        items == SelectSeqBy(evaluated,
            {i \in 1..Len(evaluated) :
                DynamoDBRepository_ListProducts_FilterExpression(evaluated[i], filter)})
        searched == IF filter.search # <<>>
                    THEN SelectSeqBy(items,
                        {i \in 1..Len(items) :
                            DynamoDBRepository_ListProducts_Search(items[i], filter)})
                    ELSE items
        afterOffset == IF filter.offset > 0 /\ filter.offset < Len(searched)
                       THEN SliceFrom(searched, filter.offset)
                       ELSE IF filter.offset >= Len(searched) THEN <<>>
                       ELSE searched
        totalCount == Len(afterOffset)
        page == IF filter.limit > 0 /\ filter.limit < Len(afterOffset)
                THEN SliceTo(afterOffset, filter.limit)
                ELSE afterOffset
    IN [err |-> NoError, products |-> page, total_count |-> totalCount,
        limit |-> filter.limit, offset |-> filter.offset]

DynamoDBRepository_GetLowStockProducts(store) ==
    [err |-> NoError,
     products |-> SelectSeqBy(store,
        {i \in 1..Len(store) : store[i].stock <= store[i].min_stock
                               /\ store[i].is_active = TRUE})]
\* the attributes UpdateProduct puts in its update expression besides
\* updated_at (min_stock is not one)
DynamoDBRepository_UpdateProduct_Fields ==
    {"name", "description", "price", "category_id", "slug", "original_price",
     "department_id", "brand", "unit", "stock", "weight", "weight_unit",
     "is_on_sale", "discount", "rating", "reviews", "is_active"}

\* PutItem of a new key: the item takes some place pos in the scan order
DynamoDBRepository_CreateProduct(store, product, newId, now, pos) ==
    LET item == [product EXCEPT !.id = newId, !.is_active = TRUE, !.updated_at = now]
    IN [err |-> NoError, store |-> InsertAt(store, pos, item), product |-> item]

\* UpdateItem with SET: writes the item under the key, creating it when the
\* key is new (the attributes it then lacks read back as zero values)
DynamoDBRepository_UpdateProduct(store, id, updates, now, pos) ==
    LET updateFields == {f \in DynamoDBRepository_UpdateProduct_Fields : updates[f] # <<>>}
        updateExpression == updateFields \cup {"updated_at"}
        old == IF id \in Ids(store) THEN store[IndexOf(store, id)]
               ELSE [ZeroProduct EXCEPT !.id = id]
        item == [ApplyPatch(old, updates, updateFields) EXCEPT !.updated_at = now]
    IN IF updateExpression = {}
       THEN [err |-> <<"no fields to update">>, store |-> store, product |-> ZeroProduct]
       ELSE IF id \in Ids(store)
       THEN [err |-> NoError, store |-> [store EXCEPT ![IndexOf(store, id)] = item],
             product |-> item]
       ELSE [err |-> NoError, store |-> InsertAt(store, pos, item), product |-> item]

\* DeleteItem: removes the item, and succeeds when there is none
DynamoDBRepository_DeleteProduct(store, id) ==
    [err |-> NoError,
     store |-> SelectSeqBy(store, {i \in 1..Len(store) : store[i].id # id})]

\* UpdateItem with SET #stock = #stock + :quantity: one atomic write; an
\* item without a stock attribute makes the expression invalid
DynamoDBRepository_UpdateStock(store, id, quantity, now) ==
    IF id \notin Ids(store)
    THEN [err |-> <<"failed to update stock", "ValidationException">>, store |-> store]
    ELSE LET i == IndexOf(store, id)
         IN [err |-> NoError,
             store |-> [store EXCEPT ![i].stock = @ + quantity, ![i].updated_at = now]]
-----------------------------------------------------------------------------
(* models.Department and PostgresRepository: departments *)

ZeroDepartment ==
    [id |-> 0, name |-> <<>>, description |-> <<>>, icon |-> <<>>, image |-> <<>>,
     slug |-> <<>>, is_active |-> FALSE, updated_at |-> 0]

DepartmentPatchFields == {"name", "description", "icon", "image", "slug", "is_active"}
ZeroDepartmentPatch == [f \in DepartmentPatchFields |-> <<>>]

ApplyRowPatch(rec, patch, fs) ==
    [f \in DOMAIN rec |-> IF f \in fs THEN patch[f][1] ELSE rec[f]]

\* departments.slug is UNIQUE NOT NULL
DepartmentsTableAccepts(rows, row) ==
    \A i \in 1..Len(rows) : rows[i].id # row.id => rows[i].slug # row.slug

PostgresRepository_GetDepartment(store, id) ==
    IF \E i \in 1..Len(store) : store[i].id = id /\ store[i].is_active = TRUE
    THEN [err |-> NoError, row |-> store[IndexOf(store, id)]]
    ELSE [err |-> <<"department not found">>, row |-> ZeroDepartment]

PostgresRepository_ListDepartments(store) ==
    [err |-> NoError,
     rows |-> SelectSeqBy(store, {i \in 1..Len(store) : store[i].is_active = TRUE})]

PostgresRepository_CreateDepartment(store, department, newId, now) ==
    LET row == [department EXCEPT !.id = newId, !.is_active = TRUE, !.updated_at = now]
    IN IF DepartmentsTableAccepts(store, row)
       THEN [err |-> NoError, store |-> Append(store, row), row |-> row]
       ELSE [err |-> <<"failed to create department", "constraint violation">>,
             store |-> store, row |-> row]

PostgresRepository_UpdateDepartment(store, id, updates, now) ==
    IF id \notin Ids(store)
    THEN [err |-> <<"department not found">>, store |-> store, row |-> ZeroDepartment]
    ELSE
    LET i == IndexOf(store, id)
        updateFields == {f \in DepartmentPatchFields : updates[f] # <<>>}
        row == [ApplyRowPatch(store[i], updates, updateFields) EXCEPT !.updated_at = now]
    IN IF updateFields = {}
       THEN [err |-> <<"no fields to update">>, store |-> store, row |-> ZeroDepartment]
       ELSE IF ~DepartmentsTableAccepts(store, row)
       THEN [err |-> <<"failed to update department", "constraint violation">>,
             store |-> store, row |-> ZeroDepartment]
       ELSE [err |-> NoError, store |-> [store EXCEPT ![i] = row], row |-> row]

PostgresRepository_DeleteDepartment(store, id, now) ==
    IF id \notin Ids(store)
    THEN [err |-> <<"department not found">>, store |-> store]
    ELSE LET i == IndexOf(store, id)
         IN [err |-> NoError,
             store |-> [store EXCEPT ![i].is_active = FALSE, ![i].updated_at = now]]

-----------------------------------------------------------------------------
(* models.Category and PostgresRepository: categories *)

ZeroCategory ==
    [id |-> 0, name |-> <<>>, slug |-> <<>>, description |-> <<>>,
     parent_id |-> <<>>, level |-> 0, is_active |-> FALSE, updated_at |-> 0]

CategoryPatchFields == {"name", "slug", "description", "parent_id", "is_active"}
ZeroCategoryPatch == [f \in CategoryPatchFields |-> <<>>]

\* categories.slug is UNIQUE NOT NULL; parent_id is UUID REFERENCES
\* categories(id), so neither '' nor an id without a row can be stored
CategoriesTableAccepts(rows, row) ==
    /\ \A i \in 1..Len(rows) : rows[i].id # row.id => rows[i].slug # row.slug
    /\ row.parent_id # <<>> => row.parent_id[1] \in (Ids(rows) \cup {row.id}) \ {0}

PostgresRepository_GetCategory(store, id) ==
    IF \E i \in 1..Len(store) : store[i].id = id /\ store[i].is_active = TRUE
    THEN [err |-> NoError, row |-> store[IndexOf(store, id)]]
    ELSE [err |-> <<"category not found">>, row |-> ZeroCategory]

\* parentID: <<>> for a nil pointer
PostgresRepository_ListCategories(store, parentID) ==
    [err |-> NoError,
     rows |-> SelectSeqBy(store,
        {i \in 1..Len(store) :
            /\ store[i].is_active = TRUE
            /\ IF parentID # <<>> THEN store[i].parent_id = parentID
               ELSE store[i].parent_id = <<>>})]

PostgresRepository_CreateCategory(store, category, newId, now) ==
    IF category.parent_id # <<>> /\ category.parent_id[1] \notin Ids(store)
    THEN [err |-> <<"parent category not found", "record not found">>,
          store |-> store, row |-> category]
    ELSE
    LET level == IF category.parent_id # <<>>
                 THEN store[IndexOf(store, category.parent_id[1])].level + 1
                 ELSE 0
        row == [category EXCEPT !.id = newId, !.is_active = TRUE, !.level = level,
                                !.updated_at = now]
    IN IF CategoriesTableAccepts(store, row)
       THEN [err |-> NoError, store |-> Append(store, row), row |-> row]
       ELSE [err |-> <<"failed to create category", "constraint violation">>,
             store |-> store, row |-> row]

PostgresRepository_UpdateCategory(store, id, updates, now) ==
    IF id \notin Ids(store)
    THEN [err |-> <<"category not found">>, store |-> store, row |-> ZeroCategory]
    ELSE IF /\ updates.parent_id # <<>>
            /\ updates.parent_id[1] # 0
            /\ updates.parent_id[1] \notin Ids(store)
    THEN [err |-> <<"parent category not found", "record not found">>,
          store |-> store, row |-> ZeroCategory]
    ELSE
    LET i == IndexOf(store, id)
        updateFields == {f \in CategoryPatchFields : updates[f] # <<>>}
        patched == [f \in DOMAIN store[i] |->
                        IF f \in updateFields \ {"parent_id"} THEN updates[f][1]
                        ELSE IF f = "parent_id" /\ updates.parent_id # <<>>
                        THEN updates.parent_id
                        ELSE IF f = "level" /\ updates.parent_id # <<>>
                        THEN IF updates.parent_id[1] # 0
                             THEN store[IndexOf(store, updates.parent_id[1])].level + 1
                             ELSE 0
                        ELSE store[i][f]]
        row == [patched EXCEPT !.updated_at = now]
    IN IF updateFields = {}
       THEN [err |-> <<"no fields to update">>, store |-> store, row |-> ZeroCategory]
       ELSE IF ~CategoriesTableAccepts(store, row)
       THEN [err |-> <<"failed to update category", "constraint violation">>,
             store |-> store, row |-> ZeroCategory]
       ELSE [err |-> NoError, store |-> [store EXCEPT ![i] = row], row |-> row]

PostgresRepository_DeleteCategory(store, id, now) ==
    IF id \notin Ids(store)
    THEN [err |-> <<"category not found">>, store |-> store]
    ELSE LET i == IndexOf(store, id)
         IN [err |-> NoError,
             store |-> [store EXCEPT ![i].is_active = FALSE, ![i].updated_at = now]]
-----------------------------------------------------------------------------
(* repository.ProductRepository: the strategy the services call *)

Backends == {"postgres", "dynamodb"}

\* the values of b for a store that answers no call, and for a relational
\* store whose count queries alone fail
Unreachable == {"postgres/unreachable", "dynamodb/unreachable"}
CountFails == "postgres/count fails"

\* what a repository method returns when its storage call fails:
\* fmt.Errorf(message + ": %w", err) and no data
Repo_Failed(message, store) ==
    [err |-> <<message, StorageFailure>>, store |-> store, product |-> ZeroProduct,
     products |-> <<>>, total_count |-> 0, limit |-> 0, offset |-> 0]

Repo_GetProduct(b, store, id) ==
    IF b \in Unreachable THEN Repo_Failed("failed to get product", store)
    ELSE IF b = "dynamodb" THEN DynamoDBRepository_GetProduct(store, id)
    ELSE PostgresRepository_GetProduct(store, id)

Repo_ListProducts(b, store, filter) ==
    IF b = "dynamodb/unreachable" THEN Repo_Failed("failed to scan products", store)
    ELSE IF b = "dynamodb" THEN DynamoDBRepository_ListProducts(store, filter)
    ELSE PostgresRepository_ListProducts_Calls(
             store, filter,
             IF b = "postgres/unreachable" THEN {"count", "find"}
             ELSE IF b = CountFails THEN {"count"} ELSE {})

Repo_CreateProduct(b, store, cats, product, newId, now, pos) ==
    IF b \in Unreachable THEN Repo_Failed("failed to create product", store)
    ELSE IF b = "dynamodb"
    THEN DynamoDBRepository_CreateProduct(store, product, newId, now, pos)
    ELSE PostgresRepository_CreateProduct(store, cats, product, newId, now)

Repo_UpdateProduct(b, store, cats, id, updates, now, pos) ==
    IF b = "postgres/unreachable" THEN Repo_Failed("failed to find product", store)
    ELSE IF b = "dynamodb/unreachable" THEN Repo_Failed("failed to update product", store)
    ELSE IF b = "dynamodb" THEN DynamoDBRepository_UpdateProduct(store, id, updates, now, pos)
    ELSE PostgresRepository_UpdateProduct(store, cats, id, updates, now)

Repo_DeleteProduct(b, store, id) ==
    IF b \in Unreachable THEN Repo_Failed("failed to delete product", store)
    ELSE IF b = "dynamodb" THEN DynamoDBRepository_DeleteProduct(store, id)
    ELSE PostgresRepository_DeleteProduct(store, id)

Repo_UpdateStock(b, store, id, quantity, now) ==
    IF b \in Unreachable THEN Repo_Failed("failed to update stock", store)
    ELSE IF b = "dynamodb" THEN DynamoDBRepository_UpdateStock(store, id, quantity, now)
    ELSE PostgresRepository_UpdateStock(store, id, quantity, now)

Repo_GetLowStockProducts(b, store) ==
    IF b \in Unreachable THEN Repo_Failed("failed to get low stock products", store)
    ELSE IF b = "dynamodb" THEN DynamoDBRepository_GetLowStockProducts(store)
    ELSE PostgresRepository_GetLowStockProducts(store)

-----------------------------------------------------------------------------
(* service.ProductService *)

\* what an operation hands back: the error, the table after it, and the
\* products / rows and page data it returns
Result(err, store, items) ==
    [err |-> err, store |-> store, products |-> items,
     total_count |-> 0, limit |-> 0, offset |-> 0]

ProductService_GetProduct(b, store, id) ==
    IF id = 0 THEN Result(<<"product ID is required">>, store, <<>>)
    ELSE LET r == Repo_GetProduct(b, store, id)
         IN IF r.err # NoError
            THEN Result(Wrap("failed to get product", r.err), store, <<>>)
            ELSE Result(NoError, store, <<r.product>>)

\* the pagination defaults with the first comparison strict: a limit of 0
\* is passed on as it is
ProductService_ListProducts_Clamp_ZeroKept(filter) ==
    LET limit == IF filter.limit < 0 THEN DefaultLimit
                 ELSE IF filter.limit > MaxLimit THEN MaxLimit
                 ELSE filter.limit
        offset == IF filter.offset < 0 THEN 0 ELSE filter.offset
    IN [filter EXCEPT !.limit = limit, !.offset = offset]

\* the pagination values ListProducts passes on
ProductService_ListProducts_Clamp(filter) ==
    LET limit == IF filter.limit <= 0 THEN DefaultLimit
                 ELSE IF filter.limit > MaxLimit THEN MaxLimit
                 ELSE filter.limit
        offset == IF filter.offset < 0 THEN 0 ELSE filter.offset
    IN [filter EXCEPT !.limit = limit, !.offset = offset]

ProductService_ListProducts(b, store, filter) ==
    LET r == Repo_ListProducts(b, store, ProductService_ListProducts_Clamp(filter))
    IN IF r.err # NoError
       THEN Result(Wrap("failed to list products", r.err), store, <<>>)
       ELSE [err |-> NoError, store |-> store, products |-> r.products,
             total_count |-> r.total_count, limit |-> r.limit, offset |-> r.offset]

\* request: a models.CreateProductRequest, given as the models.Product the
\* service copies it into
ProductService_CreateProduct(b, store, cats, request, newId, now, pos) ==
    LET product == [request EXCEPT !.rating = 0, !.reviews = 0]
        r == Repo_CreateProduct(b, store, cats, product, newId, now, pos)
    IN IF r.err # NoError
       THEN Result(Wrap("failed to create product", r.err), store, <<>>)
       ELSE Result(NoError, r.store, <<r.product>>)

ProductService_UpdateProduct(b, store, cats, id, request, now, pos) ==
    IF id = 0 THEN Result(<<"product ID is required">>, store, <<>>)
    ELSE IF Repo_GetProduct(b, store, id).err # NoError
    THEN Result(Wrap("product not found", Repo_GetProduct(b, store, id).err), store, <<>>)
    ELSE LET r == Repo_UpdateProduct(b, store, cats, id, request, now, pos)
         IN IF r.err # NoError
            THEN Result(Wrap("failed to update product", r.err), store, <<>>)
            ELSE Result(NoError, r.store, <<r.product>>)

ProductService_DeleteProduct(b, store, cats, id, now, pos) ==
    IF id = 0 THEN Result(<<"product ID is required">>, store, <<>>)
    ELSE IF Repo_GetProduct(b, store, id).err # NoError
    THEN Result(Wrap("product not found", Repo_GetProduct(b, store, id).err), store, <<>>)
    ELSE LET r == Repo_UpdateProduct(b, store, cats, id,
                        [ZeroPatch EXCEPT !.is_active = <<FALSE>>], now, pos)
         IN IF r.err # NoError
            THEN Result(Wrap("failed to delete product", r.err), store, <<>>)
            ELSE Result(NoError, r.store, <<>>)

\* the stock check with the comparison off by one: a result of zero refused
ProductService_UpdateStock_Check_Strict(product, quantity) ==
    LET newStock == product.stock + quantity
    IN IF newStock <= 0 THEN <<"insufficient stock">> ELSE NoError

\* the check UpdateStock makes on the product it read
ProductService_UpdateStock_Check(product, quantity) ==
    LET newStock == product.stock + quantity
    IN IF newStock < 0 THEN <<"insufficient stock">> ELSE NoError

ProductService_UpdateStock(b, store, id, quantity, now) ==
    IF id = 0 THEN Result(<<"product ID is required">>, store, <<>>)
    ELSE LET g == Repo_GetProduct(b, store, id)
         IN IF g.err # NoError
            THEN Result(Wrap("product not found", g.err), store, <<>>)
            ELSE IF ProductService_UpdateStock_Check(g.product, quantity) # NoError
            THEN Result(ProductService_UpdateStock_Check(g.product, quantity), store, <<>>)
            ELSE LET r == Repo_UpdateStock(b, store, id, quantity, now)
                 IN IF r.err # NoError
                    THEN Result(Wrap("failed to update stock", r.err), store, <<>>)
                    ELSE Result(NoError, r.store, <<>>)

ProductService_GetLowStockProducts(b, store) ==
    LET r == Repo_GetLowStockProducts(b, store)
    IN IF r.err # NoError
       THEN Result(Wrap("failed to get low stock products", r.err), store, <<>>)
       ELSE Result(NoError, store, r.products)
-----------------------------------------------------------------------------
(* service.DepartmentService and service.CategoryService; the department   *)
(* and category methods of ProductRepository exist on PostgresRepository   *)

RowResult(err, store, rows) == [err |-> err, store |-> store, rows |-> rows]

DepartmentService_GetDepartment(store, id) ==
    IF id = 0 THEN RowResult(<<"department ID is required">>, store, <<>>)
    ELSE LET r == PostgresRepository_GetDepartment(store, id)
         IN IF r.err # NoError
            THEN RowResult(Wrap("failed to get department", r.err), store, <<>>)
            ELSE RowResult(NoError, store, <<r.row>>)

DepartmentService_ListDepartments(store) ==
    RowResult(NoError, store, PostgresRepository_ListDepartments(store).rows)

DepartmentService_CreateDepartment(store, request, newId, now) ==
    LET r == PostgresRepository_CreateDepartment(store, request, newId, now)
    IN IF r.err # NoError
       THEN RowResult(Wrap("failed to create department", r.err), store, <<>>)
       ELSE RowResult(NoError, r.store, <<r.row>>)

DepartmentService_UpdateDepartment(store, id, request, now) ==
    IF id = 0 THEN RowResult(<<"department ID is required">>, store, <<>>)
    ELSE IF PostgresRepository_GetDepartment(store, id).err # NoError
    THEN RowResult(Wrap("department not found",
                        PostgresRepository_GetDepartment(store, id).err), store, <<>>)
    ELSE LET r == PostgresRepository_UpdateDepartment(store, id, request, now)
         IN IF r.err # NoError
            THEN RowResult(Wrap("failed to update department", r.err), store, <<>>)
            ELSE RowResult(NoError, r.store, <<r.row>>)

DepartmentService_DeleteDepartment(store, id, now) ==
    IF id = 0 THEN RowResult(<<"department ID is required">>, store, <<>>)
    ELSE IF PostgresRepository_GetDepartment(store, id).err # NoError
    THEN RowResult(Wrap("department not found",
                        PostgresRepository_GetDepartment(store, id).err), store, <<>>)
    ELSE LET r == PostgresRepository_UpdateDepartment(store, id,
                        [ZeroDepartmentPatch EXCEPT !.is_active = <<FALSE>>], now)
         IN IF r.err # NoError
            THEN RowResult(Wrap("failed to delete department", r.err), store, <<>>)
            ELSE RowResult(NoError, r.store, <<>>)

CategoryService_GetCategory(store, id) ==
    IF id = 0 THEN RowResult(<<"category ID is required">>, store, <<>>)
    ELSE LET r == PostgresRepository_GetCategory(store, id)
         IN IF r.err # NoError
            THEN RowResult(Wrap("failed to get category", r.err), store, <<>>)
            ELSE RowResult(NoError, store, <<r.row>>)

CategoryService_ListCategories(store, parentID) ==
    RowResult(NoError, store, PostgresRepository_ListCategories(store, parentID).rows)

\* request: a models.CreateCategoryRequest, given as the models.Category
\* the service copies it into
\* the create that leaves the lookup of the parent to the repository
CategoryService_CreateCategory_NoParentCheck(store, request, newId, now) ==
    LET r == PostgresRepository_CreateCategory(store, request, newId, now)
    IN IF r.err # NoError
       THEN RowResult(Wrap("failed to create category", r.err), store, <<>>)
       ELSE RowResult(NoError, r.store, <<r.row>>)

CategoryService_CreateCategory(store, request, newId, now) ==
    IF /\ request.parent_id # <<>>
       /\ request.parent_id[1] # 0
       /\ PostgresRepository_GetCategory(store, request.parent_id[1]).err # NoError
    THEN RowResult(Wrap("parent category not found",
                        PostgresRepository_GetCategory(store, request.parent_id[1]).err),
                   store, <<>>)
    ELSE LET r == PostgresRepository_CreateCategory(store, request, newId, now)
         IN IF r.err # NoError
            THEN RowResult(Wrap("failed to create category", r.err), store, <<>>)
            ELSE RowResult(NoError, r.store, <<r.row>>)

\* the update without the comparison of the parent with the category itself
CategoryService_UpdateCategory_NoSelfCheck(store, id, request, now) ==
    IF id = 0 THEN RowResult(<<"category ID is required">>, store, <<>>)
    ELSE IF PostgresRepository_GetCategory(store, id).err # NoError
    THEN RowResult(Wrap("category not found",
                        PostgresRepository_GetCategory(store, id).err), store, <<>>)
    ELSE IF /\ request.parent_id # <<>>
            /\ request.parent_id[1] # 0
            /\ PostgresRepository_GetCategory(store, request.parent_id[1]).err # NoError
    THEN RowResult(Wrap("parent category not found",
                        PostgresRepository_GetCategory(store, request.parent_id[1]).err),
                   store, <<>>)
    ELSE LET r == PostgresRepository_UpdateCategory(store, id, request, now)
         IN IF r.err # NoError
            THEN RowResult(Wrap("failed to update category", r.err), store, <<>>)
            ELSE RowResult(NoError, r.store, <<r.row>>)

CategoryService_UpdateCategory(store, id, request, now) ==
    IF id = 0 THEN RowResult(<<"category ID is required">>, store, <<>>)
    ELSE IF PostgresRepository_GetCategory(store, id).err # NoError
    THEN RowResult(Wrap("category not found",
                        PostgresRepository_GetCategory(store, id).err), store, <<>>)
    ELSE IF /\ request.parent_id # <<>>
            /\ request.parent_id[1] # 0
            /\ request.parent_id[1] = id
    THEN RowResult(<<"category cannot be its own parent">>, store, <<>>)
    ELSE IF /\ request.parent_id # <<>>
            /\ request.parent_id[1] # 0
            /\ PostgresRepository_GetCategory(store, request.parent_id[1]).err # NoError
    THEN RowResult(Wrap("parent category not found",
                        PostgresRepository_GetCategory(store, request.parent_id[1]).err),
                   store, <<>>)
    ELSE LET r == PostgresRepository_UpdateCategory(store, id, request, now)
         IN IF r.err # NoError
            THEN RowResult(Wrap("failed to update category", r.err), store, <<>>)
            ELSE RowResult(NoError, r.store, <<r.row>>)

CategoryService_DeleteCategory(store, id, now) ==
    IF id = 0 THEN RowResult(<<"category ID is required">>, store, <<>>)
    ELSE IF PostgresRepository_GetCategory(store, id).err # NoError
    THEN RowResult(Wrap("category not found",
                        PostgresRepository_GetCategory(store, id).err), store, <<>>)
    ELSE LET r == PostgresRepository_UpdateCategory(store, id,
                        [ZeroCategoryPatch EXCEPT !.is_active = <<FALSE>>], now)
         IN IF r.err # NoError
            THEN RowResult(Wrap("failed to delete category", r.err), store, <<>>)
            ELSE RowResult(NoError, r.store, <<>>)
-----------------------------------------------------------------------------
(* Initial data: shared/db/migrations.sql, and products already stored *)

\* ids: the categories' first, then the departments', then the products'
FirstDepartmentId == SeedCategories
FirstProductId == SeedCategories + SeedDepartments
\* an id that is never handed out
UnknownId == FirstProductId + MaxInit + MaxNew + 1

\* INSERT INTO categories (name, slug, description, level) VALUES (..., 1):
\* no parent_id, level 1
SeedCategory(k) ==
    [ZeroCategory EXCEPT !.id = k, !.name = <<"c", ToString(k)>>,
                         !.slug = <<"c", "-", ToString(k)>>,
                         !.level = SeedLevel, !.is_active = TRUE]

\* INSERT INTO departments (name, description, slug, icon)
SeedDepartment(k) ==
    [ZeroDepartment EXCEPT !.id = FirstDepartmentId + k, !.name = <<"d", ToString(k)>>,
                           !.slug = <<"d", "-", ToString(k)>>, !.is_active = TRUE]

\* the kinds of product the initial data is made of
ProductKinds == <<"milk", "tea", "retired">>

\* the k-th stored product, of the given kind
InitialProduct(k, kind) ==
    LET base == [ZeroProduct EXCEPT !.id = FirstProductId + k, !.sku = Sku(k),
                                    !.slug = Slug(k), !.unit = Str_each,
                                    !.department_id = FirstDepartmentId + 1,
                                    !.category_id = 1, !.is_active = TRUE]
    IN CASE kind = "milk" ->
            [base EXCEPT !.name = Str_Milk, !.brand = Str_Alba, !.price = Whole,
                         !.stock = 10, !.min_stock = SeedMinStock]
         [] kind = "tea" ->
            [base EXCEPT !.name = Str_Tea, !.brand = Str_Sample, !.price = 150 * Cent,
                         !.category_id = 2, !.stock = 0, !.min_stock = 0,
                         !.is_on_sale = TRUE, !.rating = 4 * Whole]
         [] kind = "retired" ->
            [base EXCEPT !.name = Str_Milk, !.brand = Str_Alba, !.price = Whole,
                         !.stock = 3, !.min_stock = SeedMinStock, !.is_active = FALSE]

\* the stored products: n of them, all of the first kind or of the kinds in turn
InitialDatasets ==
    {[k \in 1..n |-> InitialProduct(k, ProductKinds[IF mixed
                                                    THEN ((k - 1) % Len(ProductKinds)) + 1
                                                    ELSE 1])]
        : n \in 0..MaxInit, mixed \in BOOLEAN}

-----------------------------------------------------------------------------
(* Requests *)

Workers == 1..MaxWorkers

NoResponse ==
    [op |-> "none", id |-> 0, quantity |-> 0, patch |-> <<>>, filter |-> ZeroFilter,
     err |-> NoError, products |-> <<>>, rows |-> <<>>,
     total_count |-> 0, limit |-> 0, offset |-> 0, before |-> <<>>,
     status |-> 0, handler |-> "", invoked |-> "", request |-> <<>>]

\* the stored record with this id before the operation, as <<>> or <<rec>>
Before(store, id) == IF id \in Ids(store) THEN <<store[IndexOf(store, id)]>> ELSE <<>>

IdleRequest == [pc |-> "idle", id |-> 0, quantity |-> 0]

ProductIdInputs == Ids(products) \cup {UnknownId}
CategoryIdInputs == Ids(categories) \cup {UnknownId}
DepartmentIdInputs == Ids(departments) \cup {UnknownId}

QuantityInputs == {-12, -10, 5}

FilterInputs ==
    {[ZeroFilter EXCEPT !.search = s, !.limit = l, !.offset = o] :
        s \in {<<>>, Str_milk}, l \in {0, 1}, o \in {0, 1}}
    \cup {[ZeroFilter EXCEPT !.in_stock = <<TRUE>>],
          [ZeroFilter EXCEPT !.min_price = <<Whole + 1>>],
          [ZeroFilter EXCEPT !.limit = MaxLimit + 1, !.offset = -1],
          [ZeroFilter EXCEPT !.limit = -1, !.offset = 2]}

PatchInputs ==
    {ZeroPatch,
     [ZeroPatch EXCEPT !.is_active = <<TRUE>>],
     [ZeroPatch EXCEPT !.min_stock = <<1>>],
     [ZeroPatch EXCEPT !.name = <<Str_Tea>>, !.price = <<2 * Whole>>]}

\* validated models.CreateProductRequest values: a new SKU, and the SKU of
\* the first stored product
CreateProductInputs ==
    {[ZeroProduct EXCEPT !.name = Str_milk, !.sku = <<"N">>, !.slug = <<"n">>,
                         !.price = Whole, !.category_id = 1,
                         !.department_id = FirstDepartmentId + 1,
                         !.stock = 1, !.min_stock = 1],
     [ZeroProduct EXCEPT !.name = Str_Tea, !.sku = Sku(1), !.slug = <<"t">>,
                         !.price = Whole, !.category_id = 2,
                         !.department_id = FirstDepartmentId + 1]}

DepartmentPatchInputs ==
    {ZeroDepartmentPatch,
     [ZeroDepartmentPatch EXCEPT !.is_active = <<TRUE>>],
     [ZeroDepartmentPatch EXCEPT !.name = <<Str_Tea>>]}

CreateDepartmentInputs ==
    {[ZeroDepartment EXCEPT !.name = Str_Tea, !.slug = <<"t">>]}

CategoryPatchInputs ==
    {ZeroCategoryPatch,
     [ZeroCategoryPatch EXCEPT !.name = <<Str_Tea>>],
     [ZeroCategoryPatch EXCEPT !.is_active = <<TRUE>>]}
    \cup {[ZeroCategoryPatch EXCEPT !.parent_id = <<c>>] : c \in CategoryIdInputs}

CreateCategoryInputs ==
    {[ZeroCategory EXCEPT !.name = Str_Tea, !.slug = <<"t">>, !.parent_id = par] :
        par \in {<<>>} \cup {<<c>> : c \in CategoryIdInputs}}

-----------------------------------------------------------------------------
(* The state machine.  A request is handled in one invocation, which ends   *)
(* by returning its response: one action for each operation of the          *)
(* services, and Return for the end of the invocation.                      *)

InitTables ==
    /\ categories = IF backend = "postgres"
                    THEN [k \in 1..SeedCategories |-> SeedCategory(k)] ELSE <<>>
    /\ departments = IF backend = "postgres"
                     THEN [k \in 1..SeedDepartments |-> SeedDepartment(k)] ELSE <<>>
    /\ clock = 0
    /\ nextId = FirstProductId + MaxInit
    /\ resp = NoResponse
    /\ reqs = [w \in Workers |-> IdleRequest]

Init ==
    /\ backend \in Backends
    /\ products \in InitialDatasets
    /\ InitTables

Idle == resp.op = "none"
CanWrite == clock < MaxClock
CanCreate == nextId < FirstProductId + MaxInit + MaxNew

\* what the caller of a product operation got
Reply(op, id, r) ==
    [NoResponse EXCEPT !.op = op, !.id = id, !.err = r.err, !.products = r.products,
                       !.total_count = r.total_count, !.limit = r.limit,
                       !.offset = r.offset, !.before = Before(products, id)]

\* what the caller of a department or category operation got
RowReply(op, id, r, store) ==
    [NoResponse EXCEPT !.op = op, !.id = id, !.err = r.err, !.rows = r.rows,
                       !.before = Before(store, id)]

\* the time of the last write, after an operation that returned r
Written(r) == IF r.err = NoError THEN clock + 1 ELSE clock

\* where a new item may land in the scan order of the key-value table; a
\* new row of the relational table goes last
ScanPositions(id) ==
    IF backend = "postgres" \/ id \in Ids(products) THEN {Len(products) + 1}
    ELSE 1..(Len(products) + 1)

Return ==
    /\ ~Idle
    /\ resp' = NoResponse
    /\ UNCHANGED <<backend, products, departments, categories, clock, nextId, reqs>>

GetProduct(id) ==
    /\ Idle
    /\ resp' = Reply("GetProduct", id, ProductService_GetProduct(backend, products, id))
    /\ UNCHANGED <<backend, products, departments, categories, clock, nextId, reqs>>

ListProducts(filter) ==
    /\ Idle
    /\ resp' = [Reply("ListProducts", 0,
                      ProductService_ListProducts(backend, products, filter))
                EXCEPT !.filter = filter]
    /\ UNCHANGED <<backend, products, departments, categories, clock, nextId, reqs>>

GetLowStockProducts ==
    /\ Idle
    /\ resp' = Reply("GetLowStockProducts", 0,
                     ProductService_GetLowStockProducts(backend, products))
    /\ UNCHANGED <<backend, products, departments, categories, clock, nextId, reqs>>

CreateProduct(request, pos) ==
    /\ Idle /\ CanWrite /\ CanCreate
    /\ LET r == ProductService_CreateProduct(backend, products, categories, request,
                                             nextId + 1, clock + 1, pos)
       IN /\ products' = r.store
          /\ resp' = Reply("CreateProduct", nextId + 1, r)
          /\ clock' = Written(r)
    /\ nextId' = nextId + 1
    /\ UNCHANGED <<backend, departments, categories, reqs>>

UpdateProduct(id, patch, pos) ==
    /\ Idle /\ CanWrite
    /\ LET r == ProductService_UpdateProduct(backend, products, categories, id, patch,
                                             clock + 1, pos)
       IN /\ products' = r.store
          /\ resp' = [Reply("UpdateProduct", id, r) EXCEPT !.patch = patch]
          /\ clock' = Written(r)
    /\ UNCHANGED <<backend, departments, categories, nextId, reqs>>

DeleteProduct(id, pos) ==
    /\ Idle /\ CanWrite
    /\ LET r == ProductService_DeleteProduct(backend, products, categories, id,
                                             clock + 1, pos)
       IN /\ products' = r.store
          /\ resp' = Reply("DeleteProduct", id, r)
          /\ clock' = Written(r)
    /\ UNCHANGED <<backend, departments, categories, nextId, reqs>>

UpdateStock(id, quantity) ==
    /\ Idle /\ CanWrite
    /\ LET r == ProductService_UpdateStock(backend, products, id, quantity, clock + 1)
       IN /\ products' = r.store
          /\ resp' = [Reply("UpdateStock", id, r) EXCEPT !.quantity = quantity]
          /\ clock' = Written(r)
    /\ UNCHANGED <<backend, departments, categories, nextId, reqs>>

Next ==
    \/ Return
    \/ \E id \in ProductIdInputs \cup {0} : GetProduct(id)
    \/ \E filter \in FilterInputs : ListProducts(filter)
    \/ GetLowStockProducts
    \/ \E request \in CreateProductInputs, pos \in ScanPositions(nextId + 1) :
          CreateProduct(request, pos)
    \/ \E id \in ProductIdInputs, patch \in PatchInputs :
          \E pos \in ScanPositions(id) : UpdateProduct(id, patch, pos)
    \/ \E id \in ProductIdInputs : \E pos \in ScanPositions(id) : DeleteProduct(id, pos)
    \/ \E id \in ProductIdInputs, quantity \in QuantityInputs : UpdateStock(id, quantity)

Spec == Init /\ [][Next]_vars

-----------------------------------------------------------------------------
(* Departments and categories, which the relational strategy stores *)

InitCatalog ==
    /\ backend = "postgres"
    /\ products = <<>>
    /\ InitTables

GetDepartment(id) ==
    /\ Idle
    /\ resp' = RowReply("GetDepartment", id,
                        DepartmentService_GetDepartment(departments, id), departments)
    /\ UNCHANGED <<backend, products, departments, categories, clock, nextId, reqs>>

ListDepartments ==
    /\ Idle
    /\ resp' = RowReply("ListDepartments", 0,
                        DepartmentService_ListDepartments(departments), departments)
    /\ UNCHANGED <<backend, products, departments, categories, clock, nextId, reqs>>

CreateDepartment(request) ==
    /\ Idle /\ CanWrite /\ CanCreate
    /\ LET r == DepartmentService_CreateDepartment(departments, request,
                                                   nextId + 1, clock + 1)
       IN /\ departments' = r.store
          /\ resp' = RowReply("CreateDepartment", nextId + 1, r, departments)
          /\ clock' = Written(r)
    /\ nextId' = nextId + 1
    /\ UNCHANGED <<backend, products, categories, reqs>>

UpdateDepartment(id, patch) ==
    /\ Idle /\ CanWrite
    /\ LET r == DepartmentService_UpdateDepartment(departments, id, patch, clock + 1)
       IN /\ departments' = r.store
          /\ resp' = [RowReply("UpdateDepartment", id, r, departments)
                      EXCEPT !.patch = patch]
          /\ clock' = Written(r)
    /\ UNCHANGED <<backend, products, categories, nextId, reqs>>

DeleteDepartment(id) ==
    /\ Idle /\ CanWrite
    /\ LET r == DepartmentService_DeleteDepartment(departments, id, clock + 1)
       IN /\ departments' = r.store
          /\ resp' = RowReply("DeleteDepartment", id, r, departments)
          /\ clock' = Written(r)
    /\ UNCHANGED <<backend, products, categories, nextId, reqs>>

GetCategory(id) ==
    /\ Idle
    /\ resp' = RowReply("GetCategory", id,
                        CategoryService_GetCategory(categories, id), categories)
    /\ UNCHANGED <<backend, products, departments, categories, clock, nextId, reqs>>

ListCategories(parentID) ==
    /\ Idle
    /\ resp' = [RowReply("ListCategories", 0,
                         CategoryService_ListCategories(categories, parentID), categories)
                EXCEPT !.patch = parentID]
    /\ UNCHANGED <<backend, products, departments, categories, clock, nextId, reqs>>

CreateCategory(request) ==
    /\ Idle /\ CanWrite /\ CanCreate
    /\ LET r == CategoryService_CreateCategory(categories, request, nextId + 1, clock + 1)
       IN /\ categories' = r.store
          /\ resp' = [RowReply("CreateCategory", nextId + 1, r, categories)
                      EXCEPT !.patch = request.parent_id]
          /\ clock' = Written(r)
    /\ nextId' = nextId + 1
    /\ UNCHANGED <<backend, products, departments, reqs>>

UpdateCategory(id, patch) ==
    /\ Idle /\ CanWrite
    /\ LET r == CategoryService_UpdateCategory(categories, id, patch, clock + 1)
       IN /\ categories' = r.store
          /\ resp' = [RowReply("UpdateCategory", id, r, categories) EXCEPT !.patch = patch]
          /\ clock' = Written(r)
    /\ UNCHANGED <<backend, products, departments, nextId, reqs>>

DeleteCategory(id) ==
    /\ Idle /\ CanWrite
    /\ LET r == CategoryService_DeleteCategory(categories, id, clock + 1)
       IN /\ categories' = r.store
          /\ resp' = RowReply("DeleteCategory", id, r, categories)
          /\ clock' = Written(r)
    /\ UNCHANGED <<backend, products, departments, nextId, reqs>>

NextCatalog ==
    \/ Return
    \/ \E id \in DepartmentIdInputs \cup {0} : GetDepartment(id)
    \/ ListDepartments
    \/ \E request \in CreateDepartmentInputs : CreateDepartment(request)
    \/ \E id \in DepartmentIdInputs, patch \in DepartmentPatchInputs :
          UpdateDepartment(id, patch)
    \/ \E id \in DepartmentIdInputs : DeleteDepartment(id)
    \/ \E id \in CategoryIdInputs \cup {0} : GetCategory(id)
    \/ \E parentID \in {<<>>} \cup {<<c>> : c \in Ids(categories)} : ListCategories(parentID)
    \/ \E request \in CreateCategoryInputs : CreateCategory(request)
    \/ \E id \in CategoryIdInputs, patch \in CategoryPatchInputs : UpdateCategory(id, patch)
    \/ \E id \in CategoryIdInputs : DeleteCategory(id)

SpecCatalog == InitCatalog /\ [][NextCatalog]_vars

-----------------------------------------------------------------------------
(* Every service of the process: the product, department and category *)
(* operations together                                                *)

NextAll ==
    \/ Next
    \/ NextCatalog

SpecAll == Init /\ [][NextAll]_vars

-----------------------------------------------------------------------------
(* The repository.ProductRepository methods called directly, as a caller *)
(* holding the repository may call them, on either strategy              *)

\* what the caller of a repository method got
RepositoryReply(op, id, err, items) ==
    [NoResponse EXCEPT !.op = op, !.id = id, !.err = err, !.products = items,
                       !.before = Before(products, id)]

ProductRepository_GetProduct(id) ==
    /\ Idle
    /\ LET r == Repo_GetProduct(backend, products, id)
       IN resp' = RepositoryReply("Repository.GetProduct", id, r.err,
                                  IF r.err = NoError THEN <<r.product>> ELSE <<>>)
    /\ UNCHANGED <<backend, products, departments, categories, clock, nextId, reqs>>

ProductRepository_ListProducts(filter) ==
    /\ Idle
    /\ LET r == Repo_ListProducts(backend, products, filter)
       IN resp' = [RepositoryReply("Repository.ListProducts", 0, r.err, r.products)
                   EXCEPT !.filter = filter, !.total_count = r.total_count,
                          !.limit = r.limit, !.offset = r.offset]
    /\ UNCHANGED <<backend, products, departments, categories, clock, nextId, reqs>>

ProductRepository_UpdateProduct(id, updates, pos) ==
    /\ Idle /\ CanWrite
    /\ LET r == Repo_UpdateProduct(backend, products, categories, id, updates,
                                   clock + 1, pos)
       IN /\ products' = r.store
          /\ resp' = [RepositoryReply("Repository.UpdateProduct", id, r.err,
                                      IF r.err = NoError THEN <<r.product>> ELSE <<>>)
                      EXCEPT !.patch = updates]
          /\ clock' = Written(r)
    /\ UNCHANGED <<backend, departments, categories, nextId, reqs>>

ProductRepository_DeleteProduct(id) ==
    /\ Idle /\ CanWrite
    /\ LET r == Repo_DeleteProduct(backend, products, id)
       IN /\ products' = r.store
          /\ resp' = RepositoryReply("Repository.DeleteProduct", id, r.err, <<>>)
          /\ clock' = Written(r)
    /\ UNCHANGED <<backend, departments, categories, nextId, reqs>>

ProductRepository_UpdateStock(id, quantity) ==
    /\ Idle /\ CanWrite
    /\ LET r == Repo_UpdateStock(backend, products, id, quantity, clock + 1)
       IN /\ products' = r.store
          /\ resp' = [RepositoryReply("Repository.UpdateStock", id, r.err, <<>>)
                      EXCEPT !.quantity = quantity]
          /\ clock' = Written(r)
    /\ UNCHANGED <<backend, departments, categories, nextId, reqs>>

NextRepository ==
    \/ Return
    \/ \E id \in ProductIdInputs : ProductRepository_GetProduct(id)
    \/ \E filter \in FilterInputs : ProductRepository_ListProducts(filter)
    \/ \E id \in ProductIdInputs, updates \in PatchInputs :
          \E pos \in ScanPositions(id) : ProductRepository_UpdateProduct(id, updates, pos)
    \/ \E id \in ProductIdInputs : ProductRepository_DeleteProduct(id)
    \/ \E id \in ProductIdInputs, quantity \in QuantityInputs :
          ProductRepository_UpdateStock(id, quantity)

SpecRepository == Init /\ [][NextRepository]_vars

-----------------------------------------------------------------------------
(* Concurrent stock requests: ProductService.UpdateStock is a GetProduct    *)
(* call followed by a separate repository UpdateStock call, and requests    *)
(* are handled independently, so the calls of different requests interleave *)

\* GetProduct and the stock check of request w
UpdateStock_Read(w, id, quantity) ==
    /\ reqs[w].pc = "idle"
    /\ LET g == Repo_GetProduct(backend, products, id)
           err == IF id = 0 THEN <<"product ID is required">>
                  ELSE IF g.err # NoError THEN Wrap("product not found", g.err)
                  ELSE ProductService_UpdateStock_Check(g.product, quantity)
       IN IF err # NoError
          THEN /\ reqs' = [reqs EXCEPT ![w] = [pc |-> "failed", id |-> id,
                                               quantity |-> quantity]]
               /\ resp' = [NoResponse EXCEPT !.op = "UpdateStock", !.id = id,
                                             !.quantity = quantity, !.err = err,
                                             !.before = Before(products, id)]
          ELSE /\ reqs' = [reqs EXCEPT ![w] = [pc |-> "checked", id |-> id,
                                               quantity |-> quantity]]
               /\ UNCHANGED resp
    /\ UNCHANGED <<backend, products, departments, categories, clock, nextId>>

\* the repository's UpdateStock call of request w
UpdateStock_Write(w) ==
    /\ reqs[w].pc = "checked"
    /\ LET r == Repo_UpdateStock(backend, products, reqs[w].id, reqs[w].quantity,
                                 clock + 1)
       IN /\ products' = r.store
          /\ clock' = Written(r)
          /\ resp' = [NoResponse EXCEPT
                        !.op = "UpdateStock", !.id = reqs[w].id,
                        !.quantity = reqs[w].quantity,
                        !.err = IF r.err # NoError
                                THEN Wrap("failed to update stock", r.err) ELSE NoError,
                        !.before = Before(products, reqs[w].id)]
          /\ reqs' = [reqs EXCEPT ![w].pc = IF r.err = NoError THEN "done" ELSE "failed"]
    /\ UNCHANGED <<backend, departments, categories, nextId>>

NextConc ==
    \/ \E w \in Workers, id \in ProductIdInputs, quantity \in QuantityInputs :
          UpdateStock_Read(w, id, quantity)
    \/ \E w \in Workers : UpdateStock_Write(w)

SpecConc == Init /\ [][NextConc]_vars

-----------------------------------------------------------------------------
(* handler.LambdaHandler: the product routes.  A request path is the        *)
(* sequence of its segments; a segment is a word or a uuid (an id).         *)

Word(w) == [word |-> w, id |-> 0]
Uuid(n) == [word |-> "", id |-> n]

\* the path of the product collection in the product-only handler and in
\* the handler of the three services
ProductsPaths == {<<Word("products")>>, <<Word("product-service"), Word("products")>>}

\* strings.HasPrefix(request.Path, base + "/")
HasPrefix(path, base) == Len(path) > Len(base) /\ SubSeq(path, 1, Len(base)) = base

\* the switch of HandleRequest over the product routes, its cases in the
\* order of the source: the name of the method that handles the request
HandleRequest_Route(base, method, path) ==
    IF method = "GET" /\ path = base THEN "listProducts"
    ELSE IF method = "GET" /\ HasPrefix(path, base) THEN "getProduct"
    ELSE IF method = "POST" /\ path = base THEN "createProduct"
    ELSE IF method = "PUT" /\ HasPrefix(path, base) THEN "updateProduct"
    ELSE IF method = "DELETE" /\ HasPrefix(path, base) THEN "deleteProduct"
    ELSE IF method = "GET" /\ path = base \o <<Word("low-stock")>> THEN "getLowStockProducts"
    ELSE IF method = "POST" /\ HasPrefix(path, base) /\ path[Len(path)] = Word("stock")
    THEN "updateStock"
    ELSE IF method = "GET" /\ path = base \o <<Word("on-sale")>> THEN "getProductsOnSale"
    ELSE IF method = "GET" /\ HasPrefix(path, base \o <<Word("department")>>)
    THEN "getProductsByDepartment"
    ELSE "Route not found"

\* extractIDFromPath: parts[1] of two parts or more in the product-only
\* handler, the last of three parts or more in the other; Word("") for ""
extractIDFromPath(base, path) ==
    IF Len(base) = 1
    THEN IF Len(path) >= 2 THEN path[2] ELSE Word("")
    ELSE IF Len(path) >= 3 THEN path[Len(path)] ELSE Word("")

\* strings.Replace(request.Path, "/stock", "", 1)
WithoutStock(path) ==
    IF \E i \in 1..Len(path) : path[i] = Word("stock")
    THEN LET i == CHOOSE k \in 1..Len(path) :
                     /\ path[k] = Word("stock")
                     /\ \A j \in 1..(k - 1) : path[j] # Word("stock")
         IN SubSeq(path, 1, i - 1) \o SubSeq(path, i + 1, Len(path))
    ELSE path

\* extractDepartmentIDFromPath: the part after "department", which is
\* parts[1] in the product-only handler and parts[2] in the other
extractDepartmentIDFromPath(base, path) ==
    IF Len(path) >= Len(base) + 2 /\ path[Len(base) + 1] = Word("department")
    THEN path[Len(base) + 2] ELSE Word("")

\* the id column is of type UUID: a query comparing it with a text that is
\* no uuid fails in the database, as a query to a store that cannot be
\* reached does
StoreFor(segment, b) == IF segment.word # "" THEN "postgres/unreachable" ELSE b

\* the id a service is called with: a word is some text that no row has
IdFor(segment) == IF segment.word # "" THEN UnknownId ELSE segment.id

\* strconv: the text of a number, read as the package reads it.  A result
\* is <<value>>, or <<>> for an error.  Exponents, hexadecimal digits,
\* underscores, "inf" and "nan" are left out: no request in the inputs has them.
DigitChars == <<"0", "1", "2", "3", "4", "5", "6", "7", "8", "9">>
IsDigits(s) == \A i \in 1..Len(s) : s[i] \in Range(DigitChars)
DigitValue(c) == (CHOOSE d \in 1..Len(DigitChars) : DigitChars[d] = c) - 1

RECURSIVE Decimal(_)
\* the number a sequence of digits spells
Decimal(s) == IF s = <<>> THEN 0
              ELSE 10 * Decimal(SubSeq(s, 1, Len(s) - 1)) + DigitValue(s[Len(s)])

Unsigned(s) == IF s # <<>> /\ s[1] \in {"+", "-"} THEN Tail(s) ELSE s
SignOf(s) == IF s # <<>> /\ s[1] = "-" THEN -1 ELSE 1

strconv_Atoi(s) ==
    IF Unsigned(s) # <<>> /\ IsDigits(Unsigned(s))
    THEN <<SignOf(s) * Decimal(Unsigned(s))>> ELSE <<>>

\* the value in model units; digits after the (FracDigits + 1)-th decimal
\* are below the unit
strconv_ParseFloat(s) ==
    LET u == Unsigned(s)
        dot == IF \E i \in 1..Len(u) : u[i] = "."
               THEN CHOOSE i \in 1..Len(u) : u[i] = "." /\ \A j \in 1..(i - 1) : u[j] # "."
               ELSE Len(u) + 1
        int == SubSeq(u, 1, dot - 1)
        frac == SubSeq(u, dot + 1, Len(u))
        kept == SubSeq(frac, 1, Min(Len(frac), FracDigits + 1))
    IN IF IsDigits(int) /\ IsDigits(frac) /\ Len(int) + Len(frac) > 0
       THEN <<SignOf(s) * (Decimal(int) * Whole
                           + Decimal(kept) * Pow10(FracDigits + 1 - Len(kept)))>>
       ELSE <<>>

strconv_ParseBool(s) ==
    IF s \in {<<"1">>, <<"t">>, <<"T">>, <<"t", "r", "u", "e">>,
              <<"T", "R", "U", "E">>, <<"T", "r", "u", "e">>} THEN <<TRUE>>
    ELSE IF s \in {<<"0">>, <<"f">>, <<"F">>, <<"f", "a", "l", "s", "e">>,
                   <<"F", "A", "L", "S", "E">>, <<"F", "a", "l", "s", "e">>} THEN <<FALSE>>
    ELSE <<>>

\* request.QueryStringParameters of a request without parameters: a
\* parameter that is absent reads as ""
NoQuery ==
    [category_id |-> 0, department_id |-> 0, brand |-> <<>>, search |-> <<>>,
     min_price |-> <<>>, max_price |-> <<>>, in_stock |-> <<>>, is_on_sale |-> <<>>,
     min_rating |-> <<>>, limit |-> <<>>, offset |-> <<>>]

\* the unparsed max_price taken as the 0 its failed ParseFloat returns
LambdaHandler_listProducts_Filter_ZeroOnError(query) ==
    [ZeroFilter EXCEPT
        !.category_id = query.category_id,
        !.brand = query.brand,
        !.search = query.search,
        !.min_price = strconv_ParseFloat(query.min_price),
        !.max_price = IF query.max_price = <<>> THEN <<>>
                      ELSE IF strconv_ParseFloat(query.max_price) = <<>> THEN <<0>>
                      ELSE strconv_ParseFloat(query.max_price),
        !.in_stock = strconv_ParseBool(query.in_stock),
        !.department_id = query.department_id,
        !.is_on_sale = strconv_ParseBool(query.is_on_sale),
        !.min_rating = strconv_ParseFloat(query.min_rating),
        !.limit = IF strconv_Atoi(query.limit) = <<>> THEN 0 ELSE strconv_Atoi(query.limit)[1],
        !.offset = IF strconv_Atoi(query.offset) = <<>> THEN 0
                   ELSE strconv_Atoi(query.offset)[1]]

\* the models.ProductFilter listProducts builds: a field is set when its
\* parameter is not "" and, for a number or a boolean, parses without error
\* (the text "" parses with error under the three functions)
LambdaHandler_listProducts_Filter(query) ==
    [ZeroFilter EXCEPT
        !.category_id = query.category_id,
        !.brand = query.brand,
        !.search = query.search,
        !.min_price = strconv_ParseFloat(query.min_price),
        !.max_price = strconv_ParseFloat(query.max_price),
        !.in_stock = strconv_ParseBool(query.in_stock),
        !.department_id = query.department_id,
        !.is_on_sale = strconv_ParseBool(query.is_on_sale),
        !.min_rating = strconv_ParseFloat(query.min_rating),
        !.limit = IF strconv_Atoi(query.limit) = <<>> THEN 0 ELSE strconv_Atoi(query.limit)[1],
        !.offset = IF strconv_Atoi(query.offset) = <<>> THEN 0
                   ELSE strconv_Atoi(query.offset)[1]]

\* validator.Struct on a models.CreateProductRequest: "required" refuses
\* the zero value of the field
Validate_CreateProductRequest(v) ==
    /\ Len(v.name) >= 1 /\ Len(v.name) <= 255
    /\ v.sku # <<>> /\ v.slug # <<>>
    /\ v.price # 0 /\ v.price >= 0
    /\ v.original_price = <<>> \/ v.original_price[1] >= 0
    /\ v.category_id # 0 /\ v.department_id # 0
    /\ v.stock >= 0 /\ v.min_stock >= 0 /\ v.weight >= 0
    /\ v.discount = <<>> \/ (v.discount[1] >= 0 /\ v.discount[1] <= 100 * Whole)

\* validator.Struct on a models.UpdateProductRequest: "omitempty" passes a
\* nil pointer, and the rule after it is checked of what a pointer points to
Validate_UpdateProductRequest(v) ==
    /\ v.name = <<>> \/ (Len(v.name[1]) >= 1 /\ Len(v.name[1]) <= 255)
    /\ \A f \in {"price", "original_price", "stock", "min_stock", "weight",
                 "discount", "rating", "reviews"} : v[f] = <<>> \/ v[f][1] >= 0
    /\ v.discount = <<>> \/ v.discount[1] <= 100 * Whole
    /\ v.rating = <<>> \/ v.rating[1] <= 5 * Whole

\* validator.Struct on the body of a stock request: Quantity int "required"
Validate_StockRequest(quantity) == quantity # 0

\* what a handler method did: the status code of its response, the service
\* method it invoked ("" for none) and what that returned
Answer(status, invoked, r) ==
    [status |-> status, invoked |-> invoked, err |-> r.err, store |-> r.store,
     products |-> r.products, total_count |-> r.total_count,
     limit |-> r.limit, offset |-> r.offset]

\* errorResponse before any service is invoked
Refusal(status, message, store) == Answer(status, "", Result(<<message>>, store, <<>>))

\* strings.Contains(err.Error(), "not found"), and the codes around it
StatusOf(err, ok) ==
    IF err = NoError THEN ok ELSE IF MentionsNotFound(err) THEN 404 ELSE 500

\* the response to what a service method returned: ok without an error,
\* 500 for an error, or the status the named route picks from its text
ServiceAnswer(route, ok, invoked, r) ==
    Answer(IF route \in {"getProduct", "updateProduct", "deleteProduct"}
           THEN StatusOf(r.err, ok)
           ELSE IF route = "updateStock"
           THEN IF r.err = NoError THEN ok
                ELSE IF MentionsNotFound(r.err) THEN 404
                ELSE IF MentionsInsufficientStock(r.err) THEN 400
                ELSE 500
           ELSE IF r.err # NoError THEN 500 ELSE ok,
           invoked, r)

LambdaHandler_listProducts(query, b, store) ==
    ServiceAnswer("listProducts", 200, "ListProducts",
        ProductService_ListProducts(b, store, LambdaHandler_listProducts_Filter(query)))

LambdaHandler_getProduct(base, path, b, store) ==
    LET id == extractIDFromPath(base, path)
    IN IF id = Word("") THEN Refusal(400, "Product ID is required", store)
       ELSE ServiceAnswer("getProduct", 200, "GetProduct",
                ProductService_GetProduct(StoreFor(id, b), store, IdFor(id)))

\* body: [json |-> whether json.Unmarshal accepts the text, value |-> what
\* it decodes to]
LambdaHandler_createProduct(body, b, store, cats, newId, now) ==
    IF ~body.json THEN Refusal(400, "Invalid JSON payload", store)
    ELSE IF ~Validate_CreateProductRequest(body.value)
    THEN Refusal(400, "Validation error", store)
    ELSE ServiceAnswer("createProduct", 201, "CreateProduct",
            ProductService_CreateProduct(b, store, cats, body.value, newId, now,
                                         Len(store) + 1))

\* updateProduct without the call of the validator
LambdaHandler_updateProduct_Unvalidated(base, path, body, b, store, cats, now) ==
    LET id == extractIDFromPath(base, path)
    IN IF id = Word("") THEN Refusal(400, "Product ID is required", store)
       ELSE IF ~body.json THEN Refusal(400, "Invalid JSON payload", store)
       ELSE ServiceAnswer("updateProduct", 200, "UpdateProduct",
                ProductService_UpdateProduct(StoreFor(id, b), store, cats, IdFor(id),
                                             body.value, now, Len(store) + 1))

LambdaHandler_updateProduct(base, path, body, b, store, cats, now) ==
    LET id == extractIDFromPath(base, path)
    IN IF id = Word("") THEN Refusal(400, "Product ID is required", store)
       ELSE IF ~body.json THEN Refusal(400, "Invalid JSON payload", store)
       ELSE IF ~Validate_UpdateProductRequest(body.value)
       THEN Refusal(400, "Validation error", store)
       ELSE ServiceAnswer("updateProduct", 200, "UpdateProduct",
                ProductService_UpdateProduct(StoreFor(id, b), store, cats, IdFor(id),
                                             body.value, now, Len(store) + 1))

LambdaHandler_deleteProduct(base, path, b, store, cats, now) ==
    LET id == extractIDFromPath(base, path)
    IN IF id = Word("") THEN Refusal(400, "Product ID is required", store)
       ELSE ServiceAnswer("deleteProduct", 204, "DeleteProduct",
                ProductService_DeleteProduct(StoreFor(id, b), store, cats, IdFor(id),
                                             now, Len(store) + 1))

LambdaHandler_getLowStockProducts(b, store) ==
    ServiceAnswer("getLowStockProducts", 200, "GetLowStockProducts",
        ProductService_GetLowStockProducts(b, store))

LambdaHandler_updateStock(base, path, body, b, store, now) ==
    LET id == extractIDFromPath(base, WithoutStock(path))
    IN IF id = Word("") THEN Refusal(400, "Product ID is required", store)
       ELSE IF ~body.json THEN Refusal(400, "Invalid JSON payload", store)
       ELSE IF ~Validate_StockRequest(body.value)
       THEN Refusal(400, "Validation error", store)
       ELSE ServiceAnswer("updateStock", 200, "UpdateStock",
                ProductService_UpdateStock(StoreFor(id, b), store, IdFor(id),
                                           body.value, now))

\* ProductService.GetProductsOnSale sets filter.IsOnSale and lists
LambdaHandler_getProductsOnSale(query, b, store) ==
    ServiceAnswer("getProductsOnSale", 200, "GetProductsOnSale",
        ProductService_ListProducts(b, store,
            [ZeroFilter EXCEPT
                !.limit = LambdaHandler_listProducts_Filter(query).limit,
                !.offset = LambdaHandler_listProducts_Filter(query).offset,
                !.is_on_sale = <<TRUE>>]))

\* ProductService.GetProductsByDepartment sets filter.DepartmentID and lists
LambdaHandler_getProductsByDepartment(base, path, query, b, store) ==
    LET id == extractDepartmentIDFromPath(base, path)
    IN IF id = Word("") THEN Refusal(400, "Department ID is required", store)
       ELSE ServiceAnswer("getProductsByDepartment", 200, "GetProductsByDepartment",
                ProductService_ListProducts(StoreFor(id, b), store,
                    [ZeroFilter EXCEPT
                        !.limit = LambdaHandler_listProducts_Filter(query).limit,
                        !.offset = LambdaHandler_listProducts_Filter(query).offset,
                        !.department_id = IdFor(id)]))

\* HandleRequest: the method the switch selects, run on the request
LambdaHandler_HandleRequest(request, store, cats, newId, now) ==
    LET base == request.base
        path == request.path
        b == request.storage
        route == HandleRequest_Route(base, request.method, path)
    IN CASE route = "listProducts" -> LambdaHandler_listProducts(request.query, b, store)
         [] route = "getProduct" -> LambdaHandler_getProduct(base, path, b, store)
         [] route = "createProduct" ->
                LambdaHandler_createProduct(request.body, b, store, cats, newId, now)
         [] route = "updateProduct" ->
                LambdaHandler_updateProduct(base, path, request.body, b, store, cats, now)
         [] route = "deleteProduct" ->
                LambdaHandler_deleteProduct(base, path, b, store, cats, now)
         [] route = "getLowStockProducts" -> LambdaHandler_getLowStockProducts(b, store)
         [] route = "updateStock" ->
                LambdaHandler_updateStock(base, path, request.body, b, store, now)
         [] route = "getProductsOnSale" ->
                LambdaHandler_getProductsOnSale(request.query, b, store)
         [] route = "getProductsByDepartment" ->
                LambdaHandler_getProductsByDepartment(base, path, request.query, b, store)
         [] OTHER -> Refusal(404, "Route not found", store)

NoBody == [json |-> TRUE, value |-> <<>>]
Json(value) == [json |-> TRUE, value |-> value]
NotJson == [json |-> FALSE, value |-> <<>>]

\* the state of the database during a request: answering, out of reach, or
\* failing the count query of a listing
StorageInputs == {"postgres", "postgres/unreachable"}

\* the last parts of the paths requested under the collection
SubPaths ==
    {<<Uuid(id)>> : id \in ProductIdInputs}
    \cup {<<Word("low-stock")>>, <<Word("on-sale")>>,
          <<Word("department"), Uuid(FirstDepartmentId + 1)>>,
          <<Word("department"), Uuid(UnknownId)>>}

QueryInputs ==
    {NoQuery,
     [NoQuery EXCEPT !.max_price = <<"0", ".", "5">>],
     [NoQuery EXCEPT !.max_price = <<"a", "b", "c">>],
     [NoQuery EXCEPT !.min_price = <<"1", ",", "5">>, !.min_rating = <<"x">>],
     [NoQuery EXCEPT !.in_stock = <<"y", "e", "s">>, !.is_on_sale = <<"2">>],
     [NoQuery EXCEPT !.in_stock = <<"t", "r", "u", "e">>],
     [NoQuery EXCEPT !.limit = <<"1">>, !.offset = <<"1">>],
     [NoQuery EXCEPT !.limit = <<"1", "0", "x">>, !.offset = <<"-">>]}

CreateBodyInputs ==
    {NotJson} \cup {Json(v) : v \in CreateProductInputs}
    \cup {Json([ZeroProduct EXCEPT !.name = Str_Tea, !.sku = <<"N">>, !.slug = <<"n">>,
                                   !.category_id = 1,
                                   !.department_id = FirstDepartmentId + 1]),
          Json([ZeroProduct EXCEPT !.sku = <<"N">>, !.slug = <<"n">>, !.price = Whole,
                                   !.category_id = 1,
                                   !.department_id = FirstDepartmentId + 1])}

UpdateBodyInputs ==
    {NotJson,
     Json([ZeroPatch EXCEPT !.min_stock = <<1>>]),
     Json([ZeroPatch EXCEPT !.name = <<Str_Tea>>, !.price = <<2 * Whole>>]),
     Json([ZeroPatch EXCEPT !.name = <<(<<>>)>>]),
     Json([ZeroPatch EXCEPT !.rating = <<6 * Whole>>])}

StockBodyInputs == {NotJson, Json(0), Json(-12), Json(5)}

Request(base, method, path, body, query, storage) ==
    [base |-> base, method |-> method, path |-> path, body |-> body,
     query |-> query, storage |-> storage]

\* the events.APIGatewayProxyRequest values sent to the two handlers
RequestInputs ==
    UNION {
        {Request(base, "GET", base, NoBody, query, storage) :
            query \in QueryInputs, storage \in StorageInputs \cup {CountFails}}
        \cup {Request(base, "GET", base \o sub, NoBody, NoQuery, storage) :
            sub \in SubPaths, storage \in StorageInputs}
        \cup {Request(base, "POST", base, body, NoQuery, storage) :
            body \in CreateBodyInputs, storage \in StorageInputs}
        \cup {Request(base, "PUT", base \o <<Uuid(id)>>, body, NoQuery, storage) :
            id \in ProductIdInputs, body \in UpdateBodyInputs, storage \in StorageInputs}
        \cup {Request(base, method, base \o sub, NoBody, NoQuery, storage) :
            method \in {"DELETE"}, sub \in {<<Uuid(id)>> : id \in ProductIdInputs} \cup {<<>>},
            storage \in StorageInputs}
        \cup {Request(base, "POST", base \o <<Uuid(id), Word("stock")>>, body, NoQuery,
                      storage) :
            id \in ProductIdInputs, body \in StockBodyInputs, storage \in StorageInputs}
        : base \in ProductsPaths}

\* the path part a request names its product by
RequestedId(request) == extractIDFromPath(request.base, WithoutStock(request.path))

\* the writes made through the handlers in one behaviour
MaxHandlerWrites == 1

\* the state after the handler answered a to the request
Responded(request, a) ==
    /\ products' = a.store
    /\ resp' = [NoResponse EXCEPT
                   !.op = "HandleRequest", !.request = request,
                   !.handler = HandleRequest_Route(request.base, request.method,
                                                   request.path),
                   !.status = a.status, !.invoked = a.invoked, !.err = a.err,
                   !.products = a.products, !.total_count = a.total_count,
                   !.limit = a.limit, !.offset = a.offset,
                   !.before = Before(products, IdFor(RequestedId(request)))]
    /\ clock' = IF request.method # "GET" /\ a.invoked # "" /\ a.err = NoError
                THEN clock + 1 ELSE clock
    /\ nextId' = IF a.invoked = "CreateProduct" THEN nextId + 1 ELSE nextId

\* one invocation of the Lambda function: the response is kept in resp
\* until Return
HandleRequest(request) ==
    /\ Idle
    /\ request.method # "GET" => clock < MaxHandlerWrites
    /\ HandleRequest_Route(request.base, request.method, request.path) = "createProduct"
          => CanCreate
    /\ Responded(request, LambdaHandler_HandleRequest(request, products, categories,
                                                      nextId + 1, clock + 1))
    /\ UNCHANGED <<backend, departments, categories, reqs>>

\* both NewLambdaHandler functions build the service on NewPostgresRepository
InitHandler ==
    /\ backend = "postgres"
    /\ products \in InitialDatasets
    /\ InitTables

NextHandler ==
    \/ Return
    \/ Idle /\ \E request \in RequestInputs : HandleRequest(request)

SpecHandler == InitHandler /\ [][NextHandler]_vars

-----------------------------------------------------------------------------
(* Properties *)

\* the filters the listing properties range over: a search for a substring,
\* for the LIKE wildcard "_", a price bound with a seventh decimal, and the
\* page windows
FilterSpace ==
    {[ZeroFilter EXCEPT !.search = s, !.min_price = mp, !.limit = l, !.offset = o] :
        s \in {<<>>, Str_milk, Str_wild}, mp \in {<<>>, <<Whole + 1>>},
        l \in 0..2, o \in 0..2}

\* C1: on the same dataset and with the same filter, limit and offset
\* included, PostgresRepository.ListProducts and
\* DynamoDBRepository.ListProducts return the same set of product ids and
\* the same total_count.
C1_BackendEquivalence ==
    \A f \in FilterSpace :
        LET pg == PostgresRepository_ListProducts(products, f)
            dynamo == DynamoDBRepository_ListProducts(products, f)
        IN /\ Ids(pg.products) = Ids(dynamo.products)
           /\ pg.total_count = dynamo.total_count

\* C2: in both backends the total_count of ListProducts is the number of
\* all active records matching the filter, whatever limit and offset are,
\* and the page is the window of those matches that offset and limit select
\* (three matches, limit 1, offset 1: total_count 3 and the second match).
C2_TotalCountIsAllMatches ==
    \A b \in Backends, f \in FilterSpace :
        LET r == Repo_ListProducts(b, products, f)
            matches == Repo_ListProducts(b, products,
                                         [f EXCEPT !.limit = 0, !.offset = 0]).products
            last == IF f.limit > 0 THEN Min(f.offset + f.limit, Len(matches))
                    ELSE Len(matches)
        IN /\ r.total_count = Len(matches)
           /\ r.products = SubSeq(matches, f.offset + 1, last)

\* C3: for a static dataset and a fixed filter, in each backend, the pages
\* at limit L and offsets 0, L, 2L, ... are pairwise disjoint, their union
\* is the set of matching active records, and a page at an offset at or
\* beyond the number of matches is empty.
C3_PagesPartitionMatches ==
    \A b \in Backends, f \in FilterSpace, L \in 1..MaxInit :
        LET matches == Ids(Repo_ListProducts(b, products,
                                             [f EXCEPT !.limit = 0, !.offset = 0]).products)
            page(k) == Repo_ListProducts(b, products,
                                         [f EXCEPT !.limit = L, !.offset = k * L]).products
            sweep == 0..Cardinality(matches)
        IN /\ \A j, k \in sweep : j # k => Ids(page(j)) \cap Ids(page(k)) = {}
           /\ \A k \in sweep : Cardinality(Ids(page(k))) = Len(page(k))
           /\ UNION {Ids(page(k)) : k \in sweep} = matches
           /\ \A k \in sweep : k * L >= Cardinality(matches) => page(k) = <<>>

\* C4: the stored stock of every product is >= 0 in every reachable state,
\* under every interleaving of the reads and the increments of concurrent
\* ProductService.UpdateStock requests.
C4_StockNeverNegative ==
    \A i \in 1..Len(products) : products[i].stock >= 0

\* C5: a ProductService.UpdateStock(id, delta) on an existing active
\* product with stock s, with no other request in between, fails with an
\* insufficient-stock error and leaves the record as it was when
\* s + delta < 0, and otherwise succeeds and leaves stock = s + delta.
C5_UpdateStockSequential ==
    (/\ resp.op = "UpdateStock"
     /\ resp.before # <<>>
     /\ resp.before[1].is_active = TRUE)
    => /\ resp.id \in Ids(products)
       /\ LET s == resp.before[1].stock
              after == products[IndexOf(products, resp.id)]
          IN IF s + resp.quantity < 0
             THEN /\ MentionsInsufficientStock(resp.err)
                  /\ after = resp.before[1]
             ELSE /\ resp.err = NoError
                  /\ after.stock = s + resp.quantity

\* C5's case: from stock 10, delta -10 succeeded and left stock 0
C5_Witness ==
    /\ resp.op = "UpdateStock"
    /\ resp.before # <<>>
    /\ resp.before[1].is_active = TRUE
    /\ resp.before[1].stock = 10
    /\ resp.quantity = -10
    /\ resp.err = NoError
    /\ products[IndexOf(products, resp.id)].stock = 0

\* C6: in each backend, after ProductService.DeleteProduct(id) succeeds,
\* GetProduct(id) fails with a not-found error and id is in no ListProducts
\* result; and GetProduct, GetDepartment and GetCategory on an id that is
\* absent or whose record has is_active = false fail with not-found.
C6_SoftDeleteExclusion ==
    /\ (resp.op = "DeleteProduct" /\ resp.err = NoError)
       => /\ MentionsNotFound(ProductService_GetProduct(backend, products, resp.id).err)
          /\ \A f \in FilterInputs :
                resp.id \notin Ids(ProductService_ListProducts(backend, products, f).products)
    /\ \A id \in ProductIdInputs :
          (Before(products, id) = <<>> \/ ~Before(products, id)[1].is_active)
          => MentionsNotFound(ProductService_GetProduct(backend, products, id).err)
    /\ \A id \in DepartmentIdInputs :
          (Before(departments, id) = <<>> \/ ~Before(departments, id)[1].is_active)
          => MentionsNotFound(DepartmentService_GetDepartment(departments, id).err)
    /\ \A id \in CategoryIdInputs :
          (Before(categories, id) = <<>> \/ ~Before(categories, id)[1].is_active)
          => MentionsNotFound(CategoryService_GetCategory(categories, id).err)

\* C7: whatever operations came before, no listing operation (ListProducts,
\* GetLowStockProducts, ListDepartments, ListCategories) returns a record
\* whose is_active is false.
C7_ListingsReturnActiveOnly ==
    resp.op \in {"ListProducts", "GetLowStockProducts", "ListDepartments", "ListCategories"}
    => /\ \A i \in 1..Len(resp.products) : resp.products[i].is_active = TRUE
       /\ \A i \in 1..Len(resp.rows) : resp.rows[i].is_active = TRUE

\* C7's case: a ListProducts that returned records while an inactive
\* product matching its filter was stored
C7_Witness ==
    /\ resp.op = "ListProducts"
    /\ resp.products # <<>>
    /\ \E i \in 1..Len(products) :
          /\ products[i].is_active = FALSE
          /\ PostgresRepository_ListProducts_Where([products[i] EXCEPT !.is_active = TRUE],
                                                   resp.filter)

\* C8: after any sequence of CreateCategory and UpdateCategory operations
\* on the data the schema script inserts, every stored category with a
\* parent has level = parent.level + 1 and every category without a parent
\* has level = 0.
C8_CategoryLevels ==
    \A i \in 1..Len(categories) :
        LET c == categories[i]
        IN IF c.parent_id = <<>>
           THEN c.level = 0
           ELSE /\ c.parent_id[1] \in Ids(categories)
                /\ c.level = categories[IndexOf(categories, c.parent_id[1])].level + 1

\* C9: UpdateProduct, UpdateDepartment and UpdateCategory on an id that has
\* no stored record fail with a not-found error and create no record, in
\* the repository strategies and through the services.
C9_UpdateOfMissingIdFails ==
    /\ (resp.op = "Repository.UpdateProduct" /\ resp.before = <<>>)
       => /\ MentionsNotFound(resp.err)
          /\ resp.id \notin Ids(products)
    /\ \A request \in PatchInputs :
          LET r == ProductService_UpdateProduct(backend, products, categories, UnknownId,
                                                request, clock + 1, Len(products) + 1)
          IN MentionsNotFound(r.err) /\ r.store = products
    /\ \A request \in DepartmentPatchInputs :
          /\ LET r == PostgresRepository_UpdateDepartment(departments, UnknownId,
                                                          request, clock + 1)
             IN MentionsNotFound(r.err) /\ r.store = departments
          /\ LET r == DepartmentService_UpdateDepartment(departments, UnknownId,
                                                         request, clock + 1)
             IN MentionsNotFound(r.err) /\ r.store = departments
    /\ \A request \in CategoryPatchInputs :
          /\ LET r == PostgresRepository_UpdateCategory(categories, UnknownId,
                                                        request, clock + 1)
             IN MentionsNotFound(r.err) /\ r.store = categories
          /\ LET r == CategoryService_UpdateCategory(categories, UnknownId,
                                                     request, clock + 1)
             IN MentionsNotFound(r.err) /\ r.store = categories

\* C10: UpdateProduct on a stored record with a patch that supplies no field
\* fails with "no fields to update" and leaves the record as it was,
\* updated_at included, in both repository strategies; likewise
\* UpdateDepartment and UpdateCategory.
C10_EmptyPatchRejected ==
    /\ (/\ resp.op = "Repository.UpdateProduct"
        /\ resp.before # <<>>
        /\ resp.patch = ZeroPatch)
       => /\ MentionsNoFields(resp.err)
          /\ Before(products, resp.id) = resp.before
    /\ \A id \in Ids(departments) :
          LET r == PostgresRepository_UpdateDepartment(departments, id,
                                                       ZeroDepartmentPatch, clock + 1)
          IN MentionsNoFields(r.err) /\ r.store = departments
    /\ \A id \in Ids(categories) :
          LET r == PostgresRepository_UpdateCategory(categories, id,
                                                     ZeroCategoryPatch, clock + 1)
          IN MentionsNoFields(r.err) /\ r.store = categories

\* single constraints a ProductFilter can carry, as <<field, value>>
Constraints ==
    {<<"category_id", 2>>, <<"department_id", FirstDepartmentId + 1>>,
     <<"brand", Str_Alba>>, <<"min_price", <<Whole + 1>>>>, <<"max_price", <<Whole>>>>,
     <<"in_stock", <<TRUE>>>>, <<"in_stock", <<FALSE>>>>,
     <<"is_on_sale", <<TRUE>>>>, <<"is_on_sale", <<FALSE>>>>,
     <<"min_rating", <<Whole>>>>, <<"search", Str_milk>>, <<"search", Str_wild>>,
     <<"tags", {"organic"}>>}

\* filter f with the constraint c set
WithConstraint(f, c) == [f EXCEPT ![c[1]] = c[2]]

\* C11: in each backend ListProducts (no page window) returns a record if
\* and only if it is active and satisfies every supplied constraint:
\* equality on category_id, department_id and brand, min_price <= price <=
\* max_price, stock > 0 when in_stock is true, is_on_sale when is_on_sale is
\* true, rating >= min_rating, search as a case-insensitive substring of
\* name, description, SKU, brand or slug; in_stock = false, is_on_sale =
\* false and tags constrain nothing.
C11_FilterSemantics ==
    \A b \in Backends, c \in Constraints, d \in Constraints :
        LET f == WithConstraint(WithConstraint(ZeroFilter, c), d)
            satisfies(p) ==
                /\ p.is_active = TRUE
                /\ (f.category_id # 0 => p.category_id = f.category_id)
                /\ (f.department_id # 0 => p.department_id = f.department_id)
                /\ (f.brand # <<>> => p.brand = f.brand)
                /\ (f.min_price # <<>> => p.price >= f.min_price[1])
                /\ (f.max_price # <<>> => p.price <= f.max_price[1])
                /\ (f.in_stock = <<TRUE>> => p.stock > 0)
                /\ (f.is_on_sale = <<TRUE>> => p.is_on_sale = TRUE)
                /\ (f.min_rating # <<>> => p.rating >= f.min_rating[1])
                /\ (f.search # <<>> =>
                        \E a \in SearchFields : Contains(ToLower(p[a]), ToLower(f.search)))
        IN Ids(Repo_ListProducts(b, products, f).products)
           = {products[i].id : i \in {j \in 1..Len(products) : satisfies(products[j])}}

\* the page windows, as <<limit, offset>>
Windows == {<<0, 0>>, <<1, 0>>, <<1, 1>>, <<2, 1>>}

\* C12: for a fixed dataset, in either backend, adding a further constraint
\* to a ProductFilter, limit and offset unchanged, never increases
\* total_count nor the number of records ListProducts returns.
C12_FilterMonotonicity ==
    Idle =>
    \A b \in Backends,
       base \in {ZeroFilter, [ZeroFilter EXCEPT !.search = Str_milk],
                 [ZeroFilter EXCEPT !.in_stock = <<TRUE>>],
                 [ZeroFilter EXCEPT !.max_price = <<Whole>>]},
       w \in Windows, c \in Constraints :
        LET f == [base EXCEPT !.limit = w[1], !.offset = w[2]]
            less == Repo_ListProducts(b, products, f)
            more == Repo_ListProducts(b, products, WithConstraint(f, c))
        IN f[c[1]] = ZeroFilter[c[1]]
           => /\ more.total_count <= less.total_count
              /\ Len(more.products) <= Len(less.products)

\* C12's case: a constraint that was added left out a record that the
\* filter without it returned
C12_Witness ==
    /\ Idle
    /\ clock > 0
    /\ \E b \in Backends, c \in Constraints :
          /\ Repo_ListProducts(b, products, WithConstraint(ZeroFilter, c)).total_count
                < Repo_ListProducts(b, products, ZeroFilter).total_count
          /\ Repo_ListProducts(b, products, WithConstraint(ZeroFilter, c)).total_count > 0

\* C13: ProductService.ListProducts passes the repository a limit in 1..100
\* (20 when the given limit is <= 0, 100 when it is > 100) and an offset
\* >= 0 (0 when negative), and the response carries these values.
C13_PaginationClamped ==
    resp.op = "ListProducts"
    => LET given == resp.filter
           passed == ProductService_ListProducts_Clamp(given)
       IN /\ passed.limit \in 1..100
          /\ passed.limit = (IF given.limit <= 0 THEN 20
                             ELSE IF given.limit > 100 THEN 100 ELSE given.limit)
          /\ passed.offset >= 0
          /\ passed.offset = (IF given.offset < 0 THEN 0 ELSE given.offset)
          /\ resp.limit = passed.limit
          /\ resp.offset = passed.offset
          /\ resp.err = NoError

\* C13's case: a request with a limit above 100 and a negative offset was
\* answered with limit 100 and offset 0
C13_Witness ==
    /\ resp.op = "ListProducts"
    /\ resp.filter.limit > 100
    /\ resp.filter.offset < 0
    /\ resp.limit = 100
    /\ resp.offset = 0

\* C14: every ListProducts response holds at most L products, L being the
\* limit in effect (the given one brought into 1..100), whatever the
\* dataset, the filter and the offset, in both backends.
C14_PageWithinLimit ==
    resp.op = "ListProducts"
    => Len(resp.products) <= (IF resp.filter.limit <= 0 THEN 20
                              ELSE IF resp.filter.limit > 100 THEN 100
                              ELSE resp.filter.limit)

\* C14's case: a page of one product was returned for limit 1 while two
\* or more active products were stored
C14_Witness ==
    /\ resp.op = "ListProducts"
    /\ resp.filter.limit = 1
    /\ resp.filter.search = <<>>
    /\ Len(resp.products) = 1
    /\ Cardinality({i \in 1..Len(products) : products[i].is_active = TRUE}) >= 2

\* C15: no lost update.  Whatever the interleaving of concurrent
\* UpdateStock requests, the stored stock of each product is its initial
\* stock plus the sum of the deltas of the requests on it whose repository
\* call succeeded; so when all requests are over and succeeded, the final
\* stock is the initial stock plus the sum of their deltas.
C15_NoLostUpdate ==
    LET initial == CHOOSE ds \in InitialDatasets :
                      /\ Len(ds) = Len(products)
                      /\ \A i \in 1..Len(ds) :
                            [ds[i] EXCEPT !.stock = 0, !.updated_at = 0]
                            = [products[i] EXCEPT !.stock = 0, !.updated_at = 0]
        applied(id) == {w \in Workers : reqs[w].pc = "done" /\ reqs[w].id = id}
        Sum[S \in SUBSET Workers] ==
            IF S = {} THEN 0
            ELSE LET w == CHOOSE x \in S : TRUE
                 IN reqs[w].quantity + Sum[S \ {w}]
    IN \A i \in 1..Len(products) :
          products[i].stock = initial[i].stock + Sum[applied(products[i].id)]

\* C15's case: all requests are over, and two or more of them succeeded on
\* the same product
C15_Witness ==
    /\ \A w \in Workers : reqs[w].pc = "done"
    /\ \A v, w \in Workers : reqs[v].id = reqs[w].id
    /\ \E v, w \in Workers : v # w /\ reqs[v].quantity # 0 /\ reqs[w].quantity # 0

\* C16: delete is a soft delete.  The relational repository's
\* DeleteProduct, DeleteDepartment and DeleteCategory and the services'
\* delete operations keep the record in storage and change only is_active,
\* to false (and the time of the update); only the key-value repository's
\* DeleteProduct removes the record.
C16_DeleteIsSoft ==
    LET softened(before, after) ==
            /\ Len(after) = Len(before)
            /\ \A i \in 1..Len(before) :
                  after[i] = before[i]
                  \/ after[i] = [before[i] EXCEPT !.is_active = FALSE,
                                                  !.updated_at = after[i].updated_at]
    IN /\ (resp.op = "Repository.DeleteProduct" /\ resp.err = NoError)
          => IF backend = "postgres"
             THEN /\ resp.id \in Ids(products)
                  /\ products[IndexOf(products, resp.id)]
                        = [resp.before[1] EXCEPT
                              !.is_active = FALSE,
                              !.updated_at = products[IndexOf(products, resp.id)].updated_at]
             ELSE resp.id \notin Ids(products)
       /\ \A id \in Ids(products) :
             LET r == ProductService_DeleteProduct(backend, products, categories, id,
                                                   clock + 1, Len(products) + 1)
             IN r.err = NoError
                => /\ softened(products, r.store)
                   /\ r.store[IndexOf(products, id)].is_active = FALSE
       /\ \A id \in Ids(departments) :
             /\ LET r == PostgresRepository_DeleteDepartment(departments, id, clock + 1)
                IN r.err = NoError
                   => /\ softened(departments, r.store)
                      /\ r.store[IndexOf(departments, id)].is_active = FALSE
             /\ LET r == DepartmentService_DeleteDepartment(departments, id, clock + 1)
                IN r.err = NoError
                   => /\ softened(departments, r.store)
                      /\ r.store[IndexOf(departments, id)].is_active = FALSE
       /\ \A id \in Ids(categories) :
             /\ LET r == PostgresRepository_DeleteCategory(categories, id, clock + 1)
                IN r.err = NoError
                   => /\ softened(categories, r.store)
                      /\ r.store[IndexOf(categories, id)].is_active = FALSE
             /\ LET r == CategoryService_DeleteCategory(categories, id, clock + 1)
                IN r.err = NoError
                   => /\ softened(categories, r.store)
                      /\ r.store[IndexOf(categories, id)].is_active = FALSE

\* C17: a successful UpdateProduct, UpdateDepartment or UpdateCategory
\* changes, in the record it addresses, only the attributes the patch
\* supplies, updated_at, and level when parent_id is supplied; every other
\* attribute keeps its value, and every other record of every table is
\* unchanged.
C17_UpdateFrame ==
    [][LET supplied == {f \in DOMAIN resp'.patch : resp'.patch[f] # <<>>}
           free == supplied \cup {"updated_at"}
                   \cup (IF "parent_id" \in supplied THEN {"level"} ELSE {})
           framed(before, after) ==
               /\ Len(after) = Len(before)
               /\ \A i \in 1..Len(before) :
                     IF before[i].id = resp'.id
                     THEN \A f \in (DOMAIN before[i]) \ free : after[i][f] = before[i][f]
                     ELSE after[i] = before[i]
       IN /\ (resp'.op = "UpdateProduct" /\ resp'.err = NoError)
             => /\ framed(products, products')
                /\ departments' = departments /\ categories' = categories
          /\ (resp'.op = "UpdateDepartment" /\ resp'.err = NoError)
             => /\ framed(departments, departments')
                /\ products' = products /\ categories' = categories
          /\ (resp'.op = "UpdateCategory" /\ resp'.err = NoError)
             => /\ framed(categories, categories')
                /\ products' = products /\ departments' = departments]_vars

\* C17's case: an UpdateProduct that supplied a name succeeded on a product
\* that had a brand, and the product has the new name and its brand
C17_Witness ==
    /\ resp.op = "UpdateProduct"
    /\ resp.err = NoError
    /\ resp.patch.name # <<>>
    /\ resp.before # <<>>
    /\ resp.before[1].brand # <<>>
    /\ resp.before[1].name # resp.patch.name[1]
    /\ products[IndexOf(products, resp.id)].name = resp.patch.name[1]
    /\ products[IndexOf(products, resp.id)].brand = resp.before[1].brand

C19_LowStockExact ==
    LET low == {i \in 1..Len(products) : /\ products[i].is_active = TRUE
                                         /\ products[i].stock <= products[i].min_stock}
    IN /\ resp.op = "GetLowStockProducts"
          => /\ resp.err = NoError
             /\ Len(resp.products) = Cardinality(low)
             /\ Ids(resp.products) = {products[i].id : i \in low}
             /\ \A k \in 1..Len(resp.products) :
                   \E i \in low : resp.products[k] = products[i]
       /\ (/\ resp.op = "UpdateStock" /\ resp.err = NoError
           /\ resp.before # <<>>
           /\ resp.before[1].is_active = TRUE
           /\ resp.before[1].min_stock = SeedMinStock
           /\ resp.before[1].stock + resp.quantity = 0)
          => /\ products[IndexOf(products, resp.id)].stock = 0
             /\ resp.id \in Ids(ProductService_GetLowStockProducts(backend, products).products)

\* C19's case: GetLowStockProducts returned a product with min_stock 5 that
\* a stock adjustment had brought from 10 to 0, next to one it left out
C19_Witness ==
    /\ resp.op = "GetLowStockProducts"
    /\ \E k \in 1..Len(resp.products) :
          /\ resp.products[k].stock = 0
          /\ resp.products[k].min_stock = SeedMinStock
          /\ resp.products[k].updated_at > 0
          /\ resp.products[k].name = Str_Milk
    /\ Len(resp.products) < Len(products)

\* C20: a successful CreateProduct, CreateDepartment or CreateCategory stores
\* the new entity once, under the generated id, which no stored entity had,
\* with is_active = true; called between two requests, the repositories do
\* so whatever id and is_active the entity they are given carries, and leave
\* the stored entities as they were; a product created through ProductService.CreateProduct has rating 0
\* and reviews 0.
C20_CreateFresh ==
    LET created(store) ==
            /\ resp.before = <<>>
            /\ Cardinality({i \in 1..Len(store) : store[i].id = resp.id}) = 1
            /\ store[IndexOf(store, resp.id)].is_active = TRUE
        added(before, r) ==
            r.err = NoError
            => /\ nextId + 1 \notin Ids(before)
               /\ Len(r.store) = Len(before) + 1
               /\ \A i \in 1..Len(before) : \E j \in 1..Len(r.store) : r.store[j] = before[i]
               /\ \E j \in 1..Len(r.store) : /\ r.store[j].id = nextId + 1
                                             /\ r.store[j].is_active = TRUE
                                             /\ r.store[j] \notin {before[i] : i \in 1..Len(before)}
    IN /\ (resp.op = "CreateProduct" /\ resp.err = NoError)
          => /\ created(products)
             /\ resp.products = <<products[IndexOf(products, resp.id)]>>
             /\ resp.products[1].rating = 0
             /\ resp.products[1].reviews = 0
       /\ (resp.op = "CreateDepartment" /\ resp.err = NoError) => created(departments)
       /\ (resp.op = "CreateCategory" /\ resp.err = NoError) => created(categories)
       /\ Idle => \A b \in Backends, active \in BOOLEAN, product \in CreateProductInputs :
          \A id \in ProductIdInputs \cup {0} :
          \A pos \in 1..(Len(products) + 1) :
             added(products,
                   Repo_CreateProduct(b, products, categories,
                                      [product EXCEPT !.id = id, !.is_active = active],
                                      nextId + 1, clock + 1, pos))
       /\ Idle => \A active \in BOOLEAN, department \in CreateDepartmentInputs :
          \A id \in DepartmentIdInputs \cup {0} :
             added(departments,
                   PostgresRepository_CreateDepartment(
                       departments, [department EXCEPT !.id = id, !.is_active = active],
                       nextId + 1, clock + 1))
       /\ Idle => \A active \in BOOLEAN, category \in CreateCategoryInputs :
          \A id \in CategoryIdInputs \cup {0} :
             added(categories,
                   PostgresRepository_CreateCategory(
                       categories, [category EXCEPT !.id = id, !.is_active = active],
                       nextId + 1, clock + 1))

\* C20's case: CreateProduct succeeded next to a product stored before it,
\* and the repository would again store an entity that carries that
\* product's id and is_active = false
C20_Witness ==
    /\ resp.op = "CreateProduct"
    /\ resp.err = NoError
    /\ Len(products) > 1
    /\ products[IndexOf(products, resp.id)].is_active = TRUE
    /\ \E product \in CreateProductInputs :
          Repo_CreateProduct(backend, products, categories,
                             [product EXCEPT !.id = resp.id, !.is_active = FALSE],
                             nextId + 1, clock + 1, 1).err = NoError

\* C23: in each backend no two stored products share a SKU and no two share
\* a slug, and a CreateProduct or UpdateProduct that would introduce a
\* duplicate fails and leaves the products as they were.
C23_UniqueSkuAndSlug ==
    LET unique(store) == \A i, j \in 1..Len(store) :
                            i # j => /\ store[i].sku # store[j].sku
                                     /\ store[i].slug # store[j].slug
    IN /\ unique(products)
       /\ Idle => \A request \in CreateProductInputs, pos \in ScanPositions(nextId + 1) :
             LET r == ProductService_CreateProduct(backend, products, categories, request,
                                                   nextId + 1, clock + 1, pos)
             IN IF \E i \in 1..Len(products) : \/ products[i].sku = request.sku
                                               \/ products[i].slug = request.slug
                THEN r.err # NoError /\ r.store = products
                ELSE unique(r.store)

\* C27: after a successful UpdateProduct every field of UpdateProductRequest
\* that the patch supplied has the supplied value in the stored product, in
\* both backends.
C27_SuppliedFieldsStored ==
    (resp.op = "UpdateProduct" /\ resp.err = NoError)
    => /\ resp.id \in Ids(products)
       /\ \A f \in PatchFields :
             resp.patch[f] # <<>>
             => products[IndexOf(products, resp.id)][f] = PatchValue(resp.patch, f)

\* C28: the parent relation of the stored categories is a forest: following
\* parent_id from any category reaches a root, so no set of categories is
\* closed under parent_id (no cycle of any length).
C28_ParentForest ==
    \A S \in (SUBSET Ids(categories)) \ {{}} :
        \E id \in S :
            LET parent == categories[IndexOf(categories, id)].parent_id
            IN parent = <<>> \/ parent[1] \notin S

\* C29: with the relational backend a successful service delete leaves the
\* record inactive, and on an inactive product, department or category every
\* service request (get, update with any patch, is_active = true included,
\* stock adjustment, delete) fails with not-found and leaves the stored
\* records as they are; so no step changes an inactive record.
C29_SoftDeleteAbsorbing ==
    /\ [](backend = "postgres" =>
          /\ (resp.op \in {"DeleteProduct", "DeleteDepartment", "DeleteCategory"}
              /\ resp.err = NoError)
             => LET store == IF resp.op = "DeleteProduct" THEN products
                             ELSE IF resp.op = "DeleteDepartment" THEN departments
                             ELSE categories
                IN /\ resp.id \in Ids(store)
                   /\ store[IndexOf(store, resp.id)].is_active = FALSE
          /\ Idle =>
             /\ \A i \in 1..Len(products) :
                   products[i].is_active = FALSE
                   => LET id == products[i].id
                          failed(r) == MentionsNotFound(r.err) /\ r.store = products
                      IN /\ failed(ProductService_GetProduct(backend, products, id))
                         /\ failed(ProductService_DeleteProduct(
                                backend, products, categories, id, clock + 1, i))
                         /\ \A patch \in PatchInputs :
                               failed(ProductService_UpdateProduct(
                                   backend, products, categories, id, patch, clock + 1, i))
                         /\ \A quantity \in QuantityInputs :
                               failed(ProductService_UpdateStock(
                                   backend, products, id, quantity, clock + 1))
             /\ \A i \in 1..Len(departments) :
                   departments[i].is_active = FALSE
                   => LET id == departments[i].id
                          failed(r) == MentionsNotFound(r.err) /\ r.store = departments
                      IN /\ failed(DepartmentService_GetDepartment(departments, id))
                         /\ failed(DepartmentService_DeleteDepartment(departments, id, clock + 1))
                         /\ \A patch \in DepartmentPatchInputs :
                               failed(DepartmentService_UpdateDepartment(
                                   departments, id, patch, clock + 1))
             /\ \A i \in 1..Len(categories) :
                   categories[i].is_active = FALSE
                   => LET id == categories[i].id
                          failed(r) == MentionsNotFound(r.err) /\ r.store = categories
                      IN /\ failed(CategoryService_GetCategory(categories, id))
                         /\ failed(CategoryService_DeleteCategory(categories, id, clock + 1))
                         /\ \A patch \in CategoryPatchInputs :
                               failed(CategoryService_UpdateCategory(
                                   categories, id, patch, clock + 1)))
    /\ [][LET kept(before, after) ==
                  \A i \in 1..Len(before) :
                      before[i].is_active = FALSE
                      => i <= Len(after) /\ after[i] = before[i]
          IN backend = "postgres"
             => /\ kept(products, products')
                /\ kept(departments, departments')
                /\ kept(categories, categories')]_vars

\* C29's case: with the relational backend an UpdateProduct that set
\* is_active = true on a product the service had deleted was answered
\* not-found, and the product is still inactive
C29_Witness ==
    /\ backend = "postgres"
    /\ resp.op = "UpdateProduct"
    /\ resp.patch.is_active = <<TRUE>>
    /\ MentionsNotFound(resp.err)
    /\ resp.before # <<>>
    /\ resp.before[1].is_active = FALSE
    /\ resp.before[1].updated_at > 0
    /\ products[IndexOf(products, resp.id)] = resp.before[1]

\* C30: CategoryService.CreateCategory with a parent_id that names no active
\* category fails and stores no category; when it succeeds the new
\* category's level is parent.level + 1, or 0 when no parent is given.
C30_CreateCategoryParent ==
    LET active(store, parent) ==
            \E i \in 1..Len(store) : store[i].id = parent[1] /\ store[i].is_active = TRUE
        settled(before, request, r) ==
            /\ (request.parent_id # <<>> /\ ~active(before, request.parent_id))
               => r.err # NoError
            /\ r.err # NoError => r.store = before /\ r.rows = <<>>
            /\ r.err = NoError
               => /\ Len(r.store) = Len(before) + 1
                  /\ r.rows[1].level =
                        IF request.parent_id = <<>> THEN 0
                        ELSE before[IndexOf(before, request.parent_id[1])].level + 1
                  /\ \E j \in 1..Len(r.store) : r.store[j] = r.rows[1]
    IN /\ Idle => \A request \in CreateCategoryInputs
                                 \cup {[c EXCEPT !.parent_id = <<0>>] : c \in CreateCategoryInputs} :
             settled(categories, request,
                     CategoryService_CreateCategory(categories, request,
                                                    nextId + 1, clock + 1))
       /\ resp.op = "CreateCategory"
          => IF resp.err = NoError
             THEN /\ resp.patch = <<>> \/ active(categories, resp.patch)
                  /\ categories[IndexOf(categories, resp.id)].level =
                        IF resp.patch = <<>> THEN 0
                        ELSE categories[IndexOf(categories, resp.patch[1])].level + 1
             ELSE resp.id \notin Ids(categories)

\* C30's case: a CreateCategory that named a stored, inactive category as
\* parent was refused and stored nothing
C30_Witness ==
    /\ resp.op = "CreateCategory"
    /\ resp.patch # <<>>
    /\ resp.patch[1] \in Ids(categories)
    /\ categories[IndexOf(categories, resp.patch[1])].is_active = FALSE
    /\ resp.err # NoError
    /\ resp.id \notin Ids(categories)

\* C26: a GET of the low-stock path, of the on-sale path and of a
\* department path under the product collection is handled by
\* getLowStockProducts, getProductsOnSale and getProductsByDepartment
\* in each of the two handlers, and never by getProduct
C26_SpecialRoutes ==
    resp.op = "HandleRequest" /\ resp.request.method = "GET" =>
        LET base == resp.request.base
            path == resp.request.path
        IN /\ path = base \o <<Word("low-stock")>> => resp.handler = "getLowStockProducts"
           /\ path = base \o <<Word("on-sale")>> => resp.handler = "getProductsOnSale"
           /\ (Len(path) = Len(base) + 2 /\ HasPrefix(path, base \o <<Word("department")>>))
                 => resp.handler = "getProductsByDepartment"

\* the parameters of listProducts that are parsed, and the parse of each
ParsedParams ==
    {"min_price", "max_price", "min_rating", "in_stock", "is_on_sale", "limit", "offset"}

ParseParam(param, text) ==
    IF param \in {"min_price", "max_price", "min_rating"} THEN strconv_ParseFloat(text)
    ELSE IF param \in {"in_stock", "is_on_sale"} THEN strconv_ParseBool(text)
    ELSE strconv_Atoi(text)

\* C25: the response of listProducts to a request in which min_price,
\* max_price, min_rating, in_stock, is_on_sale, limit or offset has a
\* value that does not parse is the response to the same request
\* without that parameter: the same status, error, products and page data
C25_UnparsedIsAbsent ==
    resp.op = "HandleRequest" /\ resp.handler = "listProducts" =>
        \A param \in ParsedParams :
            LET query == resp.request.query
                a == LambdaHandler_listProducts([query EXCEPT ![param] = <<>>],
                                                resp.request.storage, products)
            IN (query[param] # <<>> /\ ParseParam(param, query[param]) = <<>>) =>
                  /\ resp.status = a.status
                  /\ resp.err = a.err
                  /\ resp.products = a.products
                  /\ resp.total_count = a.total_count
                  /\ resp.limit = a.limit
                  /\ resp.offset = a.offset

\* a listing answered with products although its max_price is no number
C25_Witness ==
    /\ resp.op = "HandleRequest" /\ resp.handler = "listProducts"
    /\ resp.request.query.max_price = <<"a", "b", "c">>
    /\ strconv_ParseFloat(resp.request.query.max_price) = <<>>
    /\ resp.status = 200
    /\ resp.products # <<>>

\* the request answered by r has a body that is no JSON text or that the
\* validator refuses, on one of the three routes that read a body
RefusedBody(r) ==
    /\ r.op = "HandleRequest"
    /\ r.handler \in {"createProduct", "updateProduct", "updateStock"}
    /\ \/ ~r.request.body.json
       \/ CASE r.handler = "createProduct" ->
                   ~Validate_CreateProductRequest(r.request.body.value)
            [] r.handler = "updateProduct" ->
                   ~Validate_UpdateProductRequest(r.request.body.value)
            [] r.handler = "updateStock" -> ~Validate_StockRequest(r.request.body.value)

\* C24: a create, update or stock request whose body is not valid JSON or
\* breaks a validation rule is answered 400 with no service method
\* invoked, and the invocation leaves the three tables as they were
C24_ValidationFirst ==
    /\ [](RefusedBody(resp) => resp.status = 400 /\ resp.invoked = "")
    /\ [][RefusedBody(resp') => UNCHANGED <<products, departments, categories>>]_vars

\* an update of a stored, active product refused for its rating of 6
C24_Witness ==
    /\ RefusedBody(resp) /\ resp.handler = "updateProduct"
    /\ resp.request.body.json /\ resp.request.body.value.rating = <<6 * Whole>>
    /\ resp.request.storage = "postgres"
    /\ resp.status = 400
    /\ \E i \in 1..Len(products) :
          /\ products[i].is_active
          /\ resp.request.path = resp.request.base \o <<Uuid(products[i].id)>>

\* C21: of a get, update, delete or stock request that reached the
\* service, the status is 500 when the database failed the request, and
\* otherwise 404 exactly when the product named is absent or inactive, and
\* 400 when the stock change would leave less than zero; a request the
\* database failed is never answered 404
C21_StatusReflectsError ==
    (/\ resp.op = "HandleRequest" /\ resp.invoked # ""
     /\ resp.handler \in {"getProduct", "updateProduct", "deleteProduct", "updateStock"})
    => LET failed == StoreFor(RequestedId(resp.request), resp.request.storage) \in Unreachable
           missing == resp.before = <<>> \/ ~resp.before[1].is_active
       IN /\ failed => resp.status = 500
          /\ ~failed => (resp.status = 404 <=> missing)
          /\ (~failed /\ ~missing /\ resp.handler = "updateStock"
                /\ resp.before[1].stock + resp.request.body.value < 0)
                => resp.status = 400

====
